---- MODULE Spec2Model ----
(***************************************************************************)
(* Version linking and reconciliation engine of checkpoint-explorer        *)
(* (src/app/services/civitai_version_linking.py) together with the caller  *)
(* that stores the scraped IDs and runs a pass                             *)
(* (src/app/services/background_scraper.py, _scrape_model).                *)
(*                                                                         *)
(* Conventions of the translation:                                         *)
(*  - Python None, a missing key, '' and 0 of an ID field are the value 0  *)
(*    (the code only tests these fields for truthiness or equality);       *)
(*    registry IDs are the numbers 1..MaxId.                               *)
(*  - a missing hash is the empty sequence; a hash is a sequence of        *)
(*    one-character strings.                                               *)
(*  - a missing relatedVersions list is the empty list and a missing       *)
(*    linkMetadata dict the empty dict: the code reads both with defaults  *)
(*    and creates them before writing.                                     *)
(*  - the store is a dict whose iteration order is its key order; `order`  *)
(*    is that key order and `models` the mapping.                          *)
(***************************************************************************)
EXTENDS Integers, Sequences, FiniteSets, TLC

(* ------------------------------------------------------------------ *)
(* Bounds                                                              *)
(* ------------------------------------------------------------------ *)
\* registry family / version identifiers are 1..MaxId
MaxId == 2
\* longest version list of a scrape
MaxVersions == 2
\* number of operations (edits, removals, scrapes) in a run
MaxOps == 3
\* number of those operations that are edits or removals by the user
MaxChanges == 1
\* number of operations before a function is applied to the store
MaxSetupOps == 1
\* candidate sizes lie up to this many KB around 100 KB
MaxDelta == 1
\* length of a list of target hashes
MaxTargets == 2
\* local times of publishedAt strings, in hours after 2024-01-01T00:00:00
MaxTime == 2
\* number of versions of a scrape that carries dates
MaxDated == 3

(* ------------------------------------------------------------------ *)
(* Program constants                                                   *)
(* ------------------------------------------------------------------ *)
\* length of the AutoV2 short hash form
ShortLen == 10
\* length of a full SHA256 hex digest
FullLen == 64
\* bytes per KB in version_sizes
BytesPerKB == 1024
\* tolerance=0.01 passed by the pass, as the fraction TolNum / TolDen
TolNum == 1
TolDen == 100

(* ------------------------------------------------------------------ *)
(* Generic helpers                                                     *)
(* ------------------------------------------------------------------ *)
Abs(x) == IF x < 0 THEN -x ELSE x

RECURSIVE Gcd(_, _)
Gcd(a, b) == IF b = 0 THEN a ELSE Gcd(b, a % b)

\* a rational n/d in lowest terms; the model's stand-in for a float quotient
Frac(n, d) == LET g == Gcd(n, d) IN [num |-> n \div g, den |-> d \div g]

\* n1/d1 < n2/d2 for positive denominators
FracLess(f1, f2) == f1.num * f2.den < f2.num * f1.den

Rep(c, n) == [i \in 1..n |-> c]

SeqToSet(s) == {s[i] : i \in 1..Len(s)}

InSeq(x, s) == \E i \in 1..Len(s) : s[i] = x

\* [y for y in s if y != x]
RECURSIVE Without(_, _)
Without(s, x) ==
    IF s = <<>> THEN <<>>
    ELSE IF Head(s) = x THEN Without(Tail(s), x)
    ELSE <<Head(s)>> \o Without(Tail(s), x)

\* [y for y in s if y not in xs]
RECURSIVE WithoutAll(_, _)
WithoutAll(s, xs) ==
    IF s = <<>> THEN <<>>
    ELSE IF Head(s) \in xs THEN WithoutAll(Tail(s), xs)
    ELSE <<Head(s)>> \o WithoutAll(Tail(s), xs)

(* ------------------------------------------------------------------ *)
(* Hashes                                                              *)
(* ------------------------------------------------------------------ *)
\* str.upper() on one character of the hash alphabet
UpperChar(c) ==
    CASE c = "a" -> "A"
      [] c = "b" -> "B"
      [] c = "c" -> "C"
      [] OTHER -> c

\* str.upper()
Upper(h) == [i \in 1..Len(h) |-> UpperChar(h[i])]

\* str.startswith
StartsWith(s, pre) == Len(pre) <= Len(s) /\ SubSeq(s, 1, Len(pre)) = pre

\* fault variant: Method 3, the stored short form against a full target,
\* is missing
UpperMatches_no_reverse(model_upper, target_upper) ==
    \/ model_upper = target_upper
    \/ /\ Len(target_upper) = ShortLen
       /\ Len(model_upper) = FullLen
       /\ StartsWith(model_upper, target_upper)

\* the three comparisons of hash_matches on the upper-cased strings
UpperMatches(model_upper, target_upper) ==
    \/ model_upper = target_upper
    \/ /\ Len(target_upper) = ShortLen
       /\ Len(model_upper) = FullLen
       /\ StartsWith(model_upper, target_upper)
    \/ /\ Len(model_upper) = ShortLen
       /\ Len(target_upper) = FullLen
       /\ StartsWith(target_upper, model_upper)

\* one pass of the loop body of hash_matches for one target
HashMatchesOne(model_upper, target_hash) ==
    /\ target_hash # <<>>
    /\ UpperMatches(model_upper, Upper(target_hash))

hash_matches(model_hash, target_hashes) ==
    /\ model_hash # <<>>
    /\ \E model_upper \in {Upper(model_hash)} :
          \E i \in 1..Len(target_hashes) :
             HashMatchesOne(model_upper, target_hashes[i])

(* ------------------------------------------------------------------ *)
(* URLs and family IDs                                                 *)
(* ------------------------------------------------------------------ *)
\* A URL is a sequence of pieces: a piece is literal text, the literal
\* "/models/", the literal "modelVersionId=", or a run of digits (its value).
Txt(t) == [k |-> "txt", t |-> t, v |-> 0]
Lit(t) == [k |-> t, t |-> t, v |-> 0]
Num(n) == [k |-> "num", t |-> "", v |-> n]

\* re.search(lit + r'(\d+)', url): the digits after the first occurrence
\* of the literal that is followed by digits; 0 when there is none
RECURSIVE SearchDigitsAfter(_, _)
SearchDigitsAfter(url, lit) ==
    IF Len(url) < 2 THEN 0
    ELSE IF url[1].k = lit /\ url[2].k = "num" THEN url[2].v
    ELSE SearchDigitsAfter(Tail(url), lit)

extract_model_id_from_url(url) ==
    IF url = <<>> THEN 0 ELSE SearchDigitsAfter(url, "/models/")

\* CivitAIService.extract_ids_from_url
extract_ids_from_url(url) ==
    [modelId   |-> SearchDigitsAfter(url, "/models/"),
     versionId |-> SearchDigitsAfter(url, "modelVersionId=")]

\* fault variant: the structured field only, the URL is never parsed
get_model_id_field_only(model) == model.civitaiModelId

get_model_id(model) ==
    IF model.civitaiModelId # 0 THEN model.civitaiModelId
    ELSE IF model.civitaiUrl # <<>> THEN extract_model_id_from_url(model.civitaiUrl)
    ELSE 0

(* ------------------------------------------------------------------ *)
(* The store                                                           *)
(* ------------------------------------------------------------------ *)
\* path.startswith('_missing/'): a path is its sequence of components
IsMissingPath(path) == Len(path) >= 2 /\ path[1] = "_missing"

\* db['models'].get(path) is not None
Present(d, path) == InSeq(path, d.order)

\* keys of a record's linkMetadata dict
MetaKeys(model) == DOMAIN model.linkMetadata

\* dict item assignment  meta[key] = value
DictSet(meta, key, value) ==
    [q \in (DOMAIN meta) \cup {key} |-> IF q = key THEN value ELSE meta[q]]

\* del meta[key] for every key in keys that is present
DictDelAll(meta, keys) == [q \in (DOMAIN meta) \ keys |-> meta[q]]

\* the result "no match" (Python None) of the three matchers
NoMatch == [path |-> <<>>]

Found(m) == m.path # <<>>

(* ------------------------------------------------------------------ *)
(* Tier 1: hash match                                                  *)
(* ------------------------------------------------------------------ *)
\* the record at `path` matches on its main hash or on a variant hash
HashHit(model, target_hashes) ==
    \/ hash_matches(Upper(model.fileHash), target_hashes)
    \/ hash_matches(Upper(model.highHash), target_hashes)
    \/ hash_matches(Upper(model.lowHash), target_hashes)

RECURSIVE FindHashFrom(_, _, _)
FindHashFrom(d, paths, target_hashes) ==
    IF paths = <<>> THEN NoMatch
    ELSE IF IsMissingPath(Head(paths)) THEN FindHashFrom(d, Tail(paths), target_hashes)
    ELSE IF HashHit(d.models[Head(paths)], target_hashes) THEN [path |-> Head(paths)]
    ELSE FindHashFrom(d, Tail(paths), target_hashes)

find_hash_match(d, target_hashes) ==
    IF target_hashes = <<>> THEN NoMatch
    ELSE FindHashFrom(d, d.order, target_hashes)

(* ------------------------------------------------------------------ *)
(* Tier 2: family ID + version ID match                                *)
(* ------------------------------------------------------------------ *)
IdHit(model, model_id, version_id) ==
    /\ model.civitaiModelId = model_id
    /\ model.civitaiVersionId = version_id

RECURSIVE FindConfirmedFrom(_, _, _, _)
FindConfirmedFrom(d, paths, model_id, version_id) ==
    IF paths = <<>> THEN NoMatch
    ELSE IF IsMissingPath(Head(paths))
         THEN FindConfirmedFrom(d, Tail(paths), model_id, version_id)
    ELSE IF IdHit(d.models[Head(paths)], model_id, version_id)
         THEN [path |-> Head(paths)]
    ELSE FindConfirmedFrom(d, Tail(paths), model_id, version_id)

find_confirmed_match(d, model_id, version_id) ==
    FindConfirmedFrom(d, d.order, model_id, version_id)

(* ------------------------------------------------------------------ *)
(* Tier 3: size tolerance match                                        *)
(* ------------------------------------------------------------------ *)
\* SAFETY CHECK 1: both family IDs known and different
DifferentFamily(other_model_id, current_model_id) ==
    other_model_id # 0 /\ current_model_id # 0 /\ other_model_id # current_model_id

\* fault variant: SAFETY CHECK 2 is left out
SameFamilyWithVersion_left_out(model, other_model_id, current_model_id) == FALSE

\* SAFETY CHECK 2: same family and the candidate carries a version ID
SameFamilyWithVersion(model, other_model_id, current_model_id) ==
    /\ other_model_id # 0 /\ current_model_id # 0
    /\ other_model_id = current_model_id
    /\ model.civitaiVersionId # 0

\* fault variant: a candidate already linked to the origin is skipped too
Excluded_skip_linked(path, model, exclude_path, current_model_id) ==
    \/ IsMissingPath(path)
    \/ path = exclude_path
    \/ DifferentFamily(get_model_id(model), current_model_id)
    \/ SameFamilyWithVersion(model, get_model_id(model), current_model_id)
    \/ InSeq(exclude_path, model.relatedVersions)

\* the exclusions applied to a candidate before its size is looked at
Excluded(path, model, exclude_path, current_model_id) ==
    \/ IsMissingPath(path)
    \/ path = exclude_path
    \/ DifferentFamily(get_model_id(model), current_model_id)
    \/ SameFamilyWithVersion(model, get_model_id(model), current_model_id)

\* model.get('fileSize') or model.get('_fileSize', 0)
ModelSize(model) == IF model.fileSize # 0 THEN model.fileSize ELSE model.altFileSize

\* fault variant: diff_pct < tolerance
WithinTolerance_strict(model_size, target_size, tol) ==
    Abs(model_size - target_size) * tol.den < tol.num * target_size

\* diff_pct <= tolerance, with diff_pct = diff / target_size
WithinTolerance(model_size, target_size, tol) ==
    Abs(model_size - target_size) * tol.den <= tol.num * target_size

\* fault variant: the first size found within tolerance wins
RECURSIVE ScanSizes_first_found(_, _, _, _, _)
ScanSizes_first_found(path, model_size, sizes, tol, best) ==
    IF sizes = <<>> THEN best
    ELSE LET target_size == Head(sizes)
             diff_pct == Frac(Abs(model_size - target_size), target_size)
         IN IF target_size = 0
            THEN ScanSizes_first_found(path, model_size, Tail(sizes), tol, best)
            ELSE IF /\ WithinTolerance(model_size, target_size, tol)
                    /\ ~Found(best)
                 THEN ScanSizes_first_found(path, model_size, Tail(sizes), tol,
                                [path |-> path, size |-> model_size,
                                 diff |-> diff_pct,
                                 diff_pct |-> Frac(diff_pct.num * 100, diff_pct.den)])
                 ELSE ScanSizes_first_found(path, model_size, Tail(sizes), tol, best)

\* the inner loop over target sizes for one candidate; best is the best
\* match so far (NoMatch while best_diff is still infinite)
RECURSIVE ScanSizes(_, _, _, _, _)
ScanSizes(path, model_size, sizes, tol, best) ==
    IF sizes = <<>> THEN best
    ELSE LET target_size == Head(sizes)
             diff_pct == Frac(Abs(model_size - target_size), target_size)
         IN IF target_size = 0
            THEN ScanSizes(path, model_size, Tail(sizes), tol, best)
            ELSE IF /\ WithinTolerance(model_size, target_size, tol)
                    /\ (~Found(best) \/ FracLess(diff_pct, best.diff))
                 THEN ScanSizes(path, model_size, Tail(sizes), tol,
                                [path |-> path, size |-> model_size,
                                 diff |-> diff_pct,
                                 diff_pct |-> Frac(diff_pct.num * 100, diff_pct.den)])
                 ELSE ScanSizes(path, model_size, Tail(sizes), tol, best)

RECURSIVE FindAssumedFrom(_, _, _, _, _, _, _)
FindAssumedFrom(d, paths, target_sizes, exclude_path, tol, current_model_id, best) ==
    IF paths = <<>> THEN best
    ELSE LET path == Head(paths)
             model == d.models[path]
         IN IF \/ Excluded(path, model, exclude_path, current_model_id)
               \/ ModelSize(model) = 0
            THEN FindAssumedFrom(d, Tail(paths), target_sizes, exclude_path, tol,
                                 current_model_id, best)
            ELSE FindAssumedFrom(d, Tail(paths), target_sizes, exclude_path, tol,
                                 current_model_id,
                                 ScanSizes(path, ModelSize(model), target_sizes, tol, best))

find_assumed_match(d, target_sizes, exclude_path, tol, current_model_id) ==
    FindAssumedFrom(d, d.order, target_sizes, exclude_path, tol, current_model_id, NoMatch)

(* ------------------------------------------------------------------ *)
(* Conflict resolver                                                   *)
(* ------------------------------------------------------------------ *)
\* fault variant: a neighbour of unknown family conflicts too
ConflictsWith_unknown_too(other_model_id, confirmed_model_id) ==
    other_model_id # confirmed_model_id

\* other_model_id and str(other_model_id) != str(confirmed_model_id)
ConflictsWith(other_model_id, confirmed_model_id) ==
    other_model_id # 0 /\ other_model_id # confirmed_model_id

\* the set of paths the first loop of clean_conflicting_links collects
links_to_remove(d, model_path, confirmed_model_id) ==
    {rp \in SeqToSet(d.models[model_path].relatedVersions) :
        \/ ~Present(d, rp)
        \/ ConflictsWith(get_model_id(d.models[rp]), confirmed_model_id)}

\* fault variant: the paths are dropped from the record's relatedVersions but
\* its linkMetadata keeps their entries
RemoveLinks_keep_meta(d, model_path, rem) ==
    LET m0 == d.models[model_path]
        m1 == [m0 EXCEPT !.relatedVersions = WithoutAll(m0.relatedVersions, rem)]
        d1 == [d EXCEPT !.models[model_path] = m1]
        Reverse(q, m) == [m EXCEPT !.relatedVersions = Without(m.relatedVersions, model_path),
                                   !.linkMetadata = DictDelAll(m.linkMetadata, {model_path})]
    IN [d1 EXCEPT !.models = [q \in DOMAIN d1.models |->
                                 IF q \in rem /\ Present(d1, q)
                                 THEN Reverse(q, d1.models[q])
                                 ELSE d1.models[q]]]

\* fault variant: the reverse links on the other records are left in place
RemoveLinks_one_sided(d, model_path, rem) ==
    LET m0 == d.models[model_path]
    IN [d EXCEPT !.models[model_path] =
           [m0 EXCEPT !.relatedVersions = WithoutAll(m0.relatedVersions, rem),
                      !.linkMetadata = DictDelAll(m0.linkMetadata, rem)]]

\* the second half of clean_conflicting_links: drop the collected paths
\* from the record and the record from each collected path still stored
RemoveLinks(d, model_path, rem) ==
    LET m0 == d.models[model_path]
        m1 == [m0 EXCEPT !.relatedVersions = WithoutAll(m0.relatedVersions, rem),
                         !.linkMetadata = DictDelAll(m0.linkMetadata, rem)]
        d1 == [d EXCEPT !.models[model_path] = m1]
        Reverse(q, m) == [m EXCEPT !.relatedVersions = Without(m.relatedVersions, model_path),
                                   !.linkMetadata = DictDelAll(m.linkMetadata, {model_path})]
    IN [d1 EXCEPT !.models = [q \in DOMAIN d1.models |->
                                 IF q \in rem /\ Present(d1, q)
                                 THEN Reverse(q, d1.models[q])
                                 ELSE d1.models[q]]]

clean_conflicting_links(d, model_path, confirmed_model_id) ==
    IF ~Present(d, model_path) THEN d
    ELSE IF d.models[model_path].relatedVersions = <<>> THEN d
    ELSE LET rem == links_to_remove(d, model_path, confirmed_model_id)
         IN IF rem = {} THEN d ELSE RemoveLinks(d, model_path, rem)

(* ------------------------------------------------------------------ *)
(* Link graph maintainer                                               *)
(* ------------------------------------------------------------------ *)
\* fault variant: append without the membership test
AppendNew_always(s, x) == Append(s, x)

\* list.append(x) unless x is already in the list
AppendNew(s, x) == IF InSeq(x, s) THEN s ELSE Append(s, x)

\* linkMetadata entry written on the origin for a confirmed link
ConfirmedMeta(link) ==
    [type |-> "confirmed", method |-> "civitai_id",
     versionId |-> link.versionId, versionName |-> link.versionName]

\* fault variant: the matched record's entry carries the method of the link
ConfirmedReverseMeta_link_method(link) ==
    [type |-> "confirmed", method |-> link.method]

\* linkMetadata entry written on the matched record for a confirmed link
ConfirmedReverseMeta(link) ==
    [type |-> "confirmed", method |-> "civitai_id"]

\* linkMetadata entry written on the origin for an assumed link
AssumedMeta(link) ==
    [type |-> "assumed", method |-> "file_size",
     versionId |-> link.versionId, versionName |-> link.versionName,
     sizeDiff |-> link.diff_pct]

\* linkMetadata entry written on the matched record for an assumed link
AssumedReverseMeta(link) ==
    [type |-> "assumed", method |-> "file_size", sizeDiff |-> link.diff_pct]

\* fault variant: only the origin's side of the link is written
ApplyOne_no_reverse(d, main_path, link, meta, reverseMeta) ==
    LET m0 == d.models[main_path]
    IN [d EXCEPT !.models[main_path] =
           [m0 EXCEPT !.relatedVersions = AppendNew(m0.relatedVersions, link.path),
                      !.linkMetadata = DictSet(m0.linkMetadata, link.path, meta)]]

\* fault variant: the matched record also gets the version ID of the link
ApplyOne_sets_version(d, main_path, link, meta, reverseMeta) ==
    LET m0 == d.models[main_path]
        d1 == [d EXCEPT !.models[main_path] =
                  [m0 EXCEPT !.relatedVersions = AppendNew(m0.relatedVersions, link.path),
                             !.linkMetadata = DictSet(m0.linkMetadata, link.path, meta)]]
        l0 == d1.models[link.path]
    IN [d1 EXCEPT !.models[link.path] =
           [l0 EXCEPT !.relatedVersions = AppendNew(l0.relatedVersions, main_path),
                      !.linkMetadata = DictSet(l0.linkMetadata, main_path, reverseMeta),
                      !.civitaiVersionId = link.versionId]]

\* one iteration of either loop of apply_version_links
ApplyOne(d, main_path, link, meta, reverseMeta) ==
    LET m0 == d.models[main_path]
        d1 == [d EXCEPT !.models[main_path] =
                  [m0 EXCEPT !.relatedVersions = AppendNew(m0.relatedVersions, link.path),
                             !.linkMetadata = DictSet(m0.linkMetadata, link.path, meta)]]
        l0 == d1.models[link.path]
    IN [d1 EXCEPT !.models[link.path] =
           [l0 EXCEPT !.relatedVersions = AppendNew(l0.relatedVersions, main_path),
                      !.linkMetadata = DictSet(l0.linkMetadata, main_path, reverseMeta)]]

RECURSIVE ApplyConfirmed(_, _, _)
ApplyConfirmed(d, main_path, links) ==
    IF links = <<>> THEN d
    ELSE ApplyConfirmed(ApplyOne(d, main_path, Head(links),
                                 ConfirmedMeta(Head(links)),
                                 ConfirmedReverseMeta(Head(links))),
                        main_path, Tail(links))

RECURSIVE ApplyAssumed(_, _, _)
ApplyAssumed(d, main_path, links) ==
    IF links = <<>> THEN d
    ELSE ApplyAssumed(ApplyOne(d, main_path, Head(links),
                               AssumedMeta(Head(links)),
                               AssumedReverseMeta(Head(links))),
                      main_path, Tail(links))

apply_version_links(d, main_path, confirmed_links, assumed_links) ==
    ApplyAssumed(ApplyConfirmed(d, main_path, confirmed_links), main_path, assumed_links)

\* the entry upgrade_assumed_to_confirmed writes on either side
UpgradedMeta(version_id) ==
    [type |-> "confirmed", method |-> "civitai_id", versionId |-> version_id]

\* one half of upgrade_assumed_to_confirmed: the entry for `other` on the
\* record at `path` is replaced when the record and the entry are there
UpgradeSide(d, path, other, version_id) ==
    IF Present(d, path) /\ other \in MetaKeys(d.models[path])
    THEN [d EXCEPT !.models[path].linkMetadata =
             DictSet(d.models[path].linkMetadata, other, UpgradedMeta(version_id))]
    ELSE d

upgrade_assumed_to_confirmed(d, path1, path2, model_id, version_id) ==
    UpgradeSide(UpgradeSide(d, path1, path2, version_id), path2, path1, version_id)

(* ------------------------------------------------------------------ *)
(* One linking pass                                                    *)
(* ------------------------------------------------------------------ *)
\* [f.get('hash') for f in version_files if f.get('hash')]
RECURSIVE version_hashes(_)
version_hashes(files) ==
    IF files = <<>> THEN <<>>
    ELSE IF Head(files).hash # <<>>
         THEN <<Head(files).hash>> \o version_hashes(Tail(files))
         ELSE version_hashes(Tail(files))

\* [f.get('sizeKB', 0) * 1024 for f in version_files if f.get('sizeKB')]
RECURSIVE version_sizes(_)
version_sizes(files) ==
    IF files = <<>> THEN <<>>
    ELSE IF Head(files).sizeKB # 0
         THEN <<Head(files).sizeKB * BytesPerKB>> \o version_sizes(Tail(files))
         ELSE version_sizes(Tail(files))

\* the tolerance the pass hands to find_assumed_match
PassTolerance == [num |-> TolNum, den |-> TolDen]

\* fault variant: the ID tier is tried before the hash tier
MatchVersion_id_first(d, model_path, model_id, version) ==
    LET hashes == version_hashes(version.files)
        sizes == version_sizes(version.files)
    IN LET confirmed_match == CHOOSE m \in {find_confirmed_match(d, model_id, version.id)} : TRUE IN
       IF Found(confirmed_match)
       THEN [kind |-> "confirmed",
             link |-> [path |-> confirmed_match.path, versionId |-> version.id,
                       versionName |-> version.name, method |-> "civitai_id"]]
       ELSE
       LET hash_match == CHOOSE m \in {find_hash_match(d, hashes)} : TRUE IN
       IF Found(hash_match)
       THEN [kind |-> "confirmed",
             link |-> [path |-> hash_match.path, versionId |-> version.id,
                       versionName |-> version.name, method |-> "hash_match"]]
       ELSE IF hashes # <<>> \/ sizes = <<>>
       THEN [kind |-> "none", link |-> NoMatch]
       ELSE
       LET assumed_match == CHOOSE m \in {find_assumed_match(d, sizes, model_path,
                                                            PassTolerance, model_id)} : TRUE IN
       IF Found(assumed_match)
       THEN [kind |-> "assumed",
             link |-> [path |-> assumed_match.path, versionId |-> version.id,
                       versionName |-> version.name, method |-> "file_size",
                       size |-> assumed_match.size,
                       diff_pct |-> assumed_match.diff_pct]]
       ELSE [kind |-> "none", link |-> NoMatch]

\* the body of the loop over versions for one version that is not skipped:
\* the link it appends (kind "confirmed" or "assumed") or kind "none"
MatchVersion(d, model_path, model_id, version) ==
    LET hashes == version_hashes(version.files)
        sizes == version_sizes(version.files)
    IN \* tier 1
       LET hash_match == CHOOSE m \in {find_hash_match(d, hashes)} : TRUE IN
       IF Found(hash_match)
       THEN [kind |-> "confirmed",
             link |-> [path |-> hash_match.path, versionId |-> version.id,
                       versionName |-> version.name, method |-> "hash_match"]]
       ELSE \* tier 2
       LET confirmed_match == CHOOSE m \in {find_confirmed_match(d, model_id, version.id)} : TRUE IN
       IF Found(confirmed_match)
       THEN [kind |-> "confirmed",
             link |-> [path |-> confirmed_match.path, versionId |-> version.id,
                       versionName |-> version.name, method |-> "civitai_id"]]
       ELSE IF hashes # <<>> \/ sizes = <<>>
       THEN [kind |-> "none", link |-> NoMatch]
       ELSE \* tier 3
       LET assumed_match == CHOOSE m \in {find_assumed_match(d, sizes, model_path,
                                                            PassTolerance, model_id)} : TRUE IN
       IF Found(assumed_match)
       THEN [kind |-> "assumed",
             link |-> [path |-> assumed_match.path, versionId |-> version.id,
                       versionName |-> version.name, method |-> "file_size",
                       size |-> assumed_match.size,
                       diff_pct |-> assumed_match.diff_pct]]
       ELSE [kind |-> "none", link |-> NoMatch]

\* the loop over versions: what each version that is not skipped yields,
\* in version order
RECURSIVE MatchAll(_, _, _, _, _)
MatchAll(d, model_path, model_id, current_version_id, versions) ==
    IF versions = <<>> THEN <<>>
    ELSE IF Head(versions).id = current_version_id
         THEN MatchAll(d, model_path, model_id, current_version_id, Tail(versions))
         ELSE <<MatchVersion(d, model_path, model_id, Head(versions))>>
              \o MatchAll(d, model_path, model_id, current_version_id, Tail(versions))

\* the links of one kind among the loop's results: confirmed_links, assumed_links
RECURSIVE LinksOfKind(_, _)
LinksOfKind(matches, kind) ==
    IF matches = <<>> THEN <<>>
    ELSE IF Head(matches).kind = kind
         THEN <<Head(matches).link>> \o LinksOfKind(Tail(matches), kind)
         ELSE LinksOfKind(Tail(matches), kind)

\* the end of the pass: apply the links if there are any, save, return;
\* removed is what the cleanup took out of the origin's relatedVersions
FinishPass(d1, model_path, removed, confirmed_links, assumed_links) ==
    [db |-> IF confirmed_links # <<>> \/ assumed_links # <<>>
            THEN apply_version_links(d1, model_path, confirmed_links, assumed_links)
            ELSE d1,
     outcome |-> "linked", removed |-> removed,
     confirmed |-> confirmed_links, assumed |-> assumed_links]

\* fault variant: the single-version guard never fires
SingleVersion_never(versions) == FALSE

\* len(versions) == 1: the guard that skips linking
SingleVersion(versions) == Len(versions) = 1

\* link_versions_from_civitai_scrape: the store it leaves and what it returns
link_versions_from_civitai_scrape(d, model_path, scraped_data) ==
    IF ~Present(d, model_path)
    THEN [db |-> d, outcome |-> "not_found", removed |-> {},
          confirmed |-> <<>>, assumed |-> <<>>]
    ELSE IF scraped_data.versions = <<>>
    THEN [db |-> d, outcome |-> "no_versions", removed |-> {},
          confirmed |-> <<>>, assumed |-> <<>>]
    ELSE IF SingleVersion(scraped_data.versions)
    THEN [db |-> d, outcome |-> "single_version", removed |-> {},
          confirmed |-> <<>>, assumed |-> <<>>]
    ELSE LET model_id == scraped_data.modelId
             d1 == CHOOSE c \in {IF model_id # 0
                                 THEN clean_conflicting_links(d, model_path, model_id)
                                 ELSE d} : TRUE
             matches == CHOOSE m \in {MatchAll(d1, model_path, model_id,
                                               scraped_data.currentVersionId,
                                               scraped_data.versions)} : TRUE
         IN FinishPass(d1, model_path,
                       SeqToSet(d.models[model_path].relatedVersions)
                          \ SeqToSet(d1.models[model_path].relatedVersions),
                       LinksOfKind(matches, "confirmed"),
                       LinksOfKind(matches, "assumed"))

(* ------------------------------------------------------------------ *)
(* The records, URLs and scrapes the model draws from                  *)
(* ------------------------------------------------------------------ *)
PathA == <<"loras", "a">>
PathB == <<"loras", "b">>
PathC == <<"loras", "c">>
PathD == <<"_missing", "d">>

\* key order of the store as the scanner wrote it
InitialOrder == <<PathA, PathB, PathC, PathD>>

Paths == SeqToSet(InitialOrder)

FullA == Rep("A", ShortLen) \o Rep("B", FullLen - ShortLen)
FullC == Rep("C", FullLen)
ShortA == Rep("A", ShortLen)
ShortALower == Rep("a", ShortLen)

\* what the file scanner recorded for each file: hashes and sizes
ScannedFields(path) ==
    CASE path = PathA -> [fileHash |-> FullC, highHash |-> <<>>, lowHash |-> <<>>,
                          fileSize |-> 100 * BytesPerKB, altFileSize |-> 0]
      [] path = PathB -> [fileHash |-> ShortALower, highHash |-> <<>>, lowHash |-> <<>>,
                          fileSize |-> 0, altFileSize |-> 99 * BytesPerKB]
      [] path = PathC -> [fileHash |-> <<>>, highHash |-> <<>>, lowHash |-> FullA,
                          fileSize |-> 100 * BytesPerKB + 512, altFileSize |-> 0]
      [] OTHER        -> [fileHash |-> FullA, highHash |-> <<>>, lowHash |-> <<>>,
                          fileSize |-> 100 * BytesPerKB, altFileSize |-> 0]

\* a record as the scanner creates it: no registry data, no links
NewRecord(path) ==
    LET f == ScannedFields(path) IN
    [fileHash |-> f.fileHash, highHash |-> f.highHash, lowHash |-> f.lowHash,
     fileSize |-> f.fileSize, altFileSize |-> f.altFileSize,
     civitaiUrl |-> <<>>, civitaiModelId |-> 0, civitaiVersionId |-> 0,
     relatedVersions |-> <<>>, linkMetadata |-> <<>>]

Ids == 1..MaxId

\* the URLs a user can enter: a family page, with or without a version
FamilyUrl(f) == <<Txt("https://civitai.com"), Lit("/models/"), Num(f)>>
VersionUrl(f, v) == FamilyUrl(f) \o <<Txt("?"), Lit("modelVersionId="), Num(v)>>
OtherUrl == <<Txt("https://example.com/"), Txt("page")>>

Urls == {FamilyUrl(f) : f \in Ids} \cup {VersionUrl(1, 1)}

\* the files a remote version can list
Files == {[hash |-> ShortA, sizeKB |-> 100],
          [hash |-> <<>>, sizeKB |-> 100]}

FileLists == {<<>>} \cup {<<f>> : f \in Files}

VersionName(id) == IF id = 1 THEN "v1.0" ELSE "v2.0"

\* the version lists a registry page can show: the i-th version of a
\* family has the ID i; either no version lists a file, or the first
\* version lists one and the later versions all list the same one
VersionAt(i, fl) == [id |-> i, name |-> VersionName(i), files |-> fl]

\* the file lists of the later versions that go with the first version's
LaterFileLists(n, first) ==
    IF n = 1 \/ first = <<>> THEN {<<>>} ELSE FileLists \ {<<>>}

VersionListsOfLen(n) ==
    IF n = 0 THEN {<<>>}
    ELSE UNION {{[i \in 1..n |-> VersionAt(i, IF i = 1 THEN first ELSE later)] :
                    later \in LaterFileLists(n, first)} : first \in FileLists}

VersionLists == UNION {VersionListsOfLen(n) : n \in 0..MaxVersions}

\* the paths of the files the scanner found on disk
ActivePaths == {p \in Paths : ~IsMissingPath(p)}

(* ------------------------------------------------------------------ *)
(* State                                                               *)
(* ------------------------------------------------------------------ *)
VARIABLES
    db,     \* the persisted store: [order, models]
    last,   \* what the last operation was and what it returned
    nOps,     \* number of operations so far
    nChanges, \* number of edits and removals so far
    threads,  \* per caller thread: where it is in its handler and its locals
    limited   \* less than rate_limit_delay has passed since last_scrape_time

vars == <<db, last, nOps, nChanges, threads, limited>>

\* the callers that run passes: the background scraper thread and a request
\* thread of the threaded HTTP server in scrape_civitai
Threads == {"scraper", "http"}

\* what load_db returns when there is no readable file
EmptyStore == [order |-> <<>>, models |-> <<>>]

\* a thread outside its handler
Idle == [pc |-> "idle", path |-> <<>>, url |-> <<>>,
         data |-> [modelId |-> 0, currentVersionId |-> 0, versions |-> <<>>],
         mem |-> EmptyStore, loaded |-> EmptyStore, outcome |-> ""]

NoOp == [op |-> "init", path |-> <<>>, modelId |-> 0, nVersions |-> 0,
         outcome |-> "", removed |-> {}, confirmed |-> <<>>, assumed |-> <<>>]

\* the scanner has catalogued the files; the user has entered the registry
\* URL of a family for the first one
Init ==
    /\ db = [order |-> InitialOrder,
             models |-> [p \in Paths |->
                           IF p = PathA
                           THEN [NewRecord(p) EXCEPT !.civitaiUrl = FamilyUrl(1)]
                           ELSE NewRecord(p)]]
    /\ last = NoOp
    /\ nOps = 0
    /\ nChanges = 0
    /\ threads = [t \in Threads |-> Idle]
    /\ limited = FALSE

(* ------------------------------------------------------------------ *)
(* Operations                                                          *)
(* ------------------------------------------------------------------ *)
\* scrape_model_page: the scraped data for a URL; the AIR code of the page
\* names the family of the URL and, when present, the version shown
scrape_model_page(url, airVersionId, versions) ==
    LET ids == extract_ids_from_url(url) IN
    [modelId |-> ids.modelId,
     currentVersionId |-> IF airVersionId # 0 THEN airVersionId ELSE ids.versionId,
     versions |-> versions]

\* BackgroundScraper._scrape_model for a record whose URL names a family:
\* store the IDs of the URL on the record, save, run the linking pass
ScrapeModel(path, airVersionId, versions) ==
    /\ nOps < MaxOps
    /\ Present(db, path)
    /\ extract_ids_from_url(db.models[path].civitaiUrl).modelId # 0
    /\ LET url == db.models[path].civitaiUrl
           ids == extract_ids_from_url(url)
           scraped_data == scrape_model_page(url, airVersionId, versions)
           saved == [db EXCEPT !.models[path].civitaiModelId = ids.modelId,
                               !.models[path].civitaiVersionId = ids.versionId]
       IN \E r \in {link_versions_from_civitai_scrape(saved, path, scraped_data)} :
          /\ db' = r.db
          /\ last' = [op |-> "pass", path |-> path, modelId |-> scraped_data.modelId,
                      nVersions |-> Len(versions),
                      outcome |-> r.outcome, removed |-> r.removed,
                      confirmed |-> r.confirmed, assumed |-> r.assumed]
    /\ nOps' = nOps + 1
    /\ UNCHANGED <<nChanges, threads, limited>>

\* update_model while the scraper's rate limit is in effect: the record is
\* saved with the URL the user entered and nothing is scraped
UpdateModelUrl(path, url) ==
    /\ nOps < MaxOps /\ nChanges < MaxChanges
    /\ Present(db, path)
    /\ db.models[path].civitaiUrl # url
    /\ db' = [db EXCEPT !.models[path].civitaiUrl = url]
    /\ last' = [NoOp EXCEPT !.op = "edit", !.path = path]
    /\ nOps' = nOps + 1
    /\ nChanges' = nChanges + 1
    /\ UNCHANGED <<threads, limited>>

\* update_all_models with a document from which the client dropped a record
RemoveRecord(path) ==
    /\ nOps < MaxOps /\ nChanges < MaxChanges
    /\ Present(db, path)
    /\ db' = [order |-> Without(db.order, path),
              models |-> [q \in (DOMAIN db.models) \ {path} |-> db.models[q]]]
    /\ last' = [NoOp EXCEPT !.op = "remove", !.path = path]
    /\ nOps' = nOps + 1
    /\ nChanges' = nChanges + 1
    /\ UNCHANGED <<threads, limited>>

Next ==
    \/ \E path \in ActivePaths, versions \in VersionLists :
          \E airVersionId \in IF Len(versions) < 2 THEN {0} ELSE {0, Len(versions)} :
             ScrapeModel(path, airVersionId, versions)
    \/ \E path \in ActivePaths, url \in Urls : UpdateModelUrl(path, url)
    \/ \E path \in ActivePaths : RemoveRecord(path)

Spec == Init /\ [][Next]_vars

(* ------------------------------------------------------------------ *)
(* Stores after a few operations, and a pass run twice                 *)
(* ------------------------------------------------------------------ *)
\* what the links of a store look like: per record the set of related
\* paths and the linkMetadata dict
LinkView(d) ==
    [p \in DOMAIN d.models |->
        [related |-> SeqToSet(d.models[p].relatedVersions),
         meta |-> d.models[p].linkMetadata]]

\* the paths of a result list, in order
PathsOf(links) == [i \in 1..Len(links) |-> links[i].path]

\* what one run of the pass leaves and returns
RunView(r) ==
    [links |-> LinkView(r.db), outcome |-> r.outcome,
     confirmed |-> PathsOf(r.confirmed), assumed |-> PathsOf(r.assumed)]

\* the caller stores the IDs of the URL and runs the pass; the pass is then
\* run once more with the same scraped data and nothing else in between
PassTwice(path, airVersionId, versions) ==
    /\ nOps <= MaxSetupOps
    /\ Present(db, path)
    /\ extract_ids_from_url(db.models[path].civitaiUrl).modelId # 0
    /\ LET url == db.models[path].civitaiUrl
           ids == extract_ids_from_url(url)
           scraped_data == scrape_model_page(url, airVersionId, versions)
           saved == [db EXCEPT !.models[path].civitaiModelId = ids.modelId,
                               !.models[path].civitaiVersionId = ids.versionId]
       IN \E r1 \in {link_versions_from_civitai_scrape(saved, path, scraped_data)} :
          \E r2 \in {link_versions_from_civitai_scrape(r1.db, path, scraped_data)} :
             /\ db' = r2.db
             /\ last' = [op |-> "rerun", path |-> path,
                         modelId |-> scraped_data.modelId,
                         nVersions |-> Len(versions),
                         removed |-> r1.removed, removedAgain |-> r2.removed,
                         first |-> RunView(r1), second |-> RunView(r2)]
    /\ nOps' = nOps + 1
    /\ UNCHANGED <<nChanges, threads, limited>>

NextStore ==
    \/ \E path \in ActivePaths, versions \in VersionLists :
          \E airVersionId \in IF Len(versions) < 2 THEN {0} ELSE {0, Len(versions)} :
             \/ nOps < MaxSetupOps /\ ScrapeModel(path, airVersionId, versions)
             \/ PassTwice(path, airVersionId, versions)
    \/ \E path \in ActivePaths, url \in Urls :
          nOps < MaxSetupOps /\ UpdateModelUrl(path, url)
    \/ \E path \in ActivePaths :
          nOps < MaxSetupOps /\ RemoveRecord(path)

SpecStore == Init /\ [][NextStore]_vars

(* ------------------------------------------------------------------ *)
(* Single calls of the matching functions                              *)
(* ------------------------------------------------------------------ *)
\* a store holding one scanned record of the given size
SizeCallStore(size) ==
    [order |-> <<PathB>>,
     models |-> [p \in {PathB} |->
                   [NewRecord(PathB) EXCEPT !.fileSize = size, !.altFileSize = 0]]]

\* pairs of a candidate size and a target size: around 100 KB against
\* 100 KB, and 100 MiB against 101 MiB
SizePairs ==
    {<<(100 + i) * BytesPerKB, 100 * BytesPerKB>> : i \in (0 - MaxDelta)..MaxDelta}
       \cup {<<100 * BytesPerKB * BytesPerKB, 101 * BytesPerKB * BytesPerKB>>}

\* the tolerance of the pass, a tighter one, and the default of the
\* parameter
CallTolerances == {PassTolerance, [num |-> 9, den |-> 1000], [num |-> 1, den |-> 1000]}

\* find_assumed_match with one candidate and one target size
CallSizeTier(size, target_size, tol) ==
    /\ nOps = 0
    /\ last' = [op |-> "size_tier", size |-> size, target |-> target_size, tol |-> tol,
                result |-> find_assumed_match(SizeCallStore(size), <<target_size>>,
                                              <<>>, tol, 0)]
    /\ nOps' = 1
    /\ UNCHANGED <<db, nChanges, threads, limited>>

\* the record hash of the spec's concrete case as written there, the same
\* padded to the length of a full form, and its short form
SpecHash ==
    <<"A", "B", "C", "D", "E", "F", "1", "2", "3", "4", "5", "6", "7", "8", "9", "0">>
       \o Rep("A", 46)
SpecHashPadded == SpecHash \o Rep("A", FullLen - Len(SpecHash))
SpecTarget == SubSeq(SpecHash, 1, ShortLen)
SpecTargetLower == <<"a", "b", "c", "D", "E", "F", "1", "2", "3", "4">>

\* hashes a record can carry and hashes a scrape can list
StoredHashes ==
    {FullA, FullC, ShortA, ShortALower, Rep("A", ShortLen - 1),
     SpecHash, SpecHashPadded, SpecTarget, SpecTargetLower}
TargetHashes == StoredHashes \cup {<<>>}
\* the lists of at most max target hashes
TargetHashLists(max) == UNION {[1..n -> TargetHashes] : n \in 0..max}

\* hash_matches for one stored hash and one list of target hashes
CallHashMatches(model_hash, target_hashes) ==
    /\ nOps = 0
    /\ last' = [op |-> "hash_matches", hash |-> model_hash, targets |-> target_hashes,
                result |-> hash_matches(model_hash, target_hashes)]
    /\ nOps' = 1
    /\ UNCHANGED <<db, nChanges, threads, limited>>

\* publishedAt: absent, a string that is no ISO date, or a local time
\* (hours after 2024-01-01T00:00:00) followed by "Z", an offset or nothing
NoDate == [kind |-> "none", local |-> 0, zone |-> ""]
BadDate == [kind |-> "bad", local |-> 0, zone |-> ""]
DateAt(local, zone) == [kind |-> "date", local |-> local, zone |-> zone]

Zones == {"Z", "+02:00", ""}

\* hours east of UTC that the suffix of the string names
OffsetOf(zone) ==
    IF zone = "+02:00" THEN 2 ELSE 0

\* datetime.fromisoformat(s.replace('Z', '+00:00')): an aware datetime with
\* its instant in UTC when the string carries "Z" or an offset, a naive
\* one when it carries none; ValueError for a string that is no ISO date
fromisoformat(published) ==
    [ok |-> published.kind = "date",
     aware |-> published.zone # "",
     instant |-> published.local - OffsetOf(published.zone)]

\* the order of the characters that can follow the local time in a
\* string: end of string, "+", "Z"
SuffixOrder(zone) ==
    CASE zone = "" -> 0
      [] zone = "+02:00" -> 1
      [] OTHER -> 2

\* s1 > s2 for two publishedAt strings of a local time and a suffix
StringGreater(s1, s2) ==
    \/ s1.local > s2.local
    \/ s1.local = s2.local /\ SuffixOrder(s1.zone) > SuffixOrder(s2.zone)

\* list.sort(key=lambda v: v['publishedAt'], reverse=True), a stable sort:
\* v goes behind every element whose string is not smaller
RECURSIVE InsertNewer(_, _)
InsertNewer(sorted, v) ==
    IF sorted = <<>> THEN <<v>>
    ELSE IF StringGreater(v.publishedAt, Head(sorted).publishedAt)
         THEN <<v>> \o sorted
         ELSE <<Head(sorted)>> \o InsertNewer(Tail(sorted), v)

RECURSIVE SortNewer(_, _)
SortNewer(newer_versions, sorted) ==
    IF newer_versions = <<>> THEN sorted
    ELSE SortNewer(Tail(newer_versions), InsertNewer(sorted, Head(newer_versions)))

\* the version whose publishedAt gives the current date: the first one
\* with the record's civitaiVersionId, or else, and also when that one has
\* no publishedAt, the first version; 0 when there is no version
CurrentIndex(versions, current_version_id) ==
    LET hits == {i \in 1..Len(versions) : versions[i].id = current_version_id}
        first_hit == CHOOSE i \in hits : \A j \in hits : i <= j
    IN IF versions = <<>> THEN 0
       ELSE IF hits # {} /\ versions[first_hit].publishedAt.kind # "none"
            THEN first_hit
       ELSE 1

\* the second loop looks at this version: it is not the current one by ID
\* and its publishedAt is there and parses
Compared(version, current_version_id) ==
    /\ version.id # current_version_id
    /\ version.publishedAt.kind # "none"
    /\ fromisoformat(version.publishedAt).ok

\* version_date > current_date raises TypeError for an aware and a naive
\* datetime
CompareRaises(version_date, current_date) == version_date.aware # current_date.aware

\* the body of the loop of detect_newer_versions for one record that is
\* not under _missing/: raised when the TypeError of a comparison leaves
\* the function, found when the record is entered in the result
detect_newer_versions(model) ==
    LET versions == model.civitaiData.versions
        current_version_id == model.civitaiVersionId
        cur == CurrentIndex(versions, current_version_id)
        nothing == [raised |-> FALSE, found |-> FALSE, allNewerVersions |-> <<>>]
    IN IF cur = 0 THEN nothing
       ELSE IF ~fromisoformat(versions[cur].publishedAt).ok THEN nothing
       ELSE LET current_date == fromisoformat(versions[cur].publishedAt)
                compared == SelectSeq(versions,
                               LAMBDA v : Compared(v, current_version_id))
                newer_versions ==
                    SelectSeq(compared,
                       LAMBDA v : fromisoformat(v.publishedAt).instant
                                     > current_date.instant)
            IN IF \E i \in 1..Len(compared) :
                     CompareRaises(fromisoformat(compared[i].publishedAt), current_date)
               THEN [raised |-> TRUE, found |-> FALSE, allNewerVersions |-> <<>>]
               ELSE [raised |-> FALSE, found |-> newer_versions # <<>>,
                     allNewerVersions |-> SortNewer(newer_versions, <<>>)]

\* the publishedAt values a scrape can carry: none, no date, the first
\* hours of 2024 in UTC and two hours east of it, one string without
\* offset, and 2024-06-01T00:00:00Z, 152 * 24 hours after 2024-01-01
LocalTimes == 0..MaxTime
PublishedAts ==
    {NoDate, BadDate, DateAt(MaxTime, ""), DateAt(152 * 24, "Z")}
       \cup {DateAt(local, zone) : local \in LocalTimes, zone \in Zones \ {""}}

\* the lists of at most max versions with dates; the version IDs are
\* 1, 2, ...
DatedVersionLists(max) ==
    UNION {{[i \in 1..n |-> [id |-> i, name |-> VersionName(i), publishedAt |-> dates[i]]] :
              dates \in [1..n -> PublishedAts]} : n \in 0..max}

\* detect_newer_versions for a record with the given civitaiVersionId
\* (0 for none) and scraped versions
CallDetectNewer(current_version_id, versions) ==
    /\ nOps = 0
    /\ \E model \in {[civitaiVersionId |-> current_version_id,
                       civitaiData |-> [versions |-> versions]]} :
          last' = [op |-> "detect", model |-> model,
                   current |-> CurrentIndex(versions, current_version_id),
                   result |-> detect_newer_versions(model)]
    /\ nOps' = 1
    /\ UNCHANGED <<db, nChanges, threads, limited>>

\* one call, of any of the functions with any of the inputs
NextCalls ==
    \/ /\ nOps = 0
       /\ \E pair \in SizePairs, tol \in CallTolerances :
             CallSizeTier(pair[1], pair[2], tol)
    \/ /\ nOps = 0
       /\ \E model_hash \in StoredHashes, target_hashes \in TargetHashLists(MaxTargets) :
             CallHashMatches(model_hash, target_hashes)
    \/ /\ nOps = 0
       /\ \E current_version_id \in 0..MaxId, versions \in DatedVersionLists(MaxDated) :
             CallDetectNewer(current_version_id, versions)

SpecCalls == Init /\ [][NextCalls]_vars

(* ------------------------------------------------------------------ *)
(* The handlers step by step: loads, saves and the rate limit          *)
(* ------------------------------------------------------------------ *)
\* number of scrapes started when two threads run
MaxRuns == 2

\* the thread is between the first load of a pass and its last save
InPass(t) == threads[t].pc \in {"clean", "link"}

\* _scrape_loop up to _scrape_model, and scrape_civitai up to the scrape:
\* can_scrape() is checked, the record and its URL are read from the store
BeginScrape(t, path) ==
    /\ nOps < MaxOps
    /\ threads[t].pc = "idle"
    /\ ~limited
    /\ Present(db, path)
    /\ extract_ids_from_url(db.models[path].civitaiUrl).modelId # 0
    /\ threads' = [threads EXCEPT ![t] =
                      [Idle EXCEPT !.pc = "fetch", !.path = path,
                                   !.url = db.models[path].civitaiUrl]]
    /\ nOps' = nOps + 1
    /\ UNCHANGED <<db, last, nChanges, limited>>

\* scrape_model_page: wait_for_rate_limit sleeps and goes on; the request
\* is answered and only then last_scrape_time is set. The IDs that
\* scrape_civitai then sets are set on a dict it never saves.
FetchPage(t, airVersionId, versions) ==
    /\ threads[t].pc = "fetch"
    /\ threads' = [threads EXCEPT ![t].pc = IF t = "scraper" THEN "store" ELSE "pass",
                                  ![t].data = scrape_model_page(threads[t].url,
                                                                airVersionId, versions)]
    /\ limited' = TRUE
    /\ UNCHANGED <<db, last, nOps, nChanges>>

\* the request fails: scrape_model_page raises and the handler gives up
FetchFails(t) ==
    /\ threads[t].pc = "fetch"
    /\ threads' = [threads EXCEPT ![t] = Idle]
    /\ UNCHANGED <<db, last, nOps, nChanges, limited>>

\* _scrape_model: load the store, set the IDs of the URL, save; give up
\* when the record is gone or the save fails
StoreIds(t, saved) ==
    /\ threads[t].pc = "store"
    /\ LET path == threads[t].path
           ids == extract_ids_from_url(threads[t].url)
       IN IF Present(db, path) /\ saved
          THEN /\ db' = [db EXCEPT !.models[path].civitaiModelId = ids.modelId,
                                   !.models[path].civitaiVersionId = ids.versionId]
               /\ threads' = [threads EXCEPT ![t].pc = "pass"]
          ELSE /\ db' = db
               /\ threads' = [threads EXCEPT ![t] = Idle]
    /\ UNCHANGED <<last, nOps, nChanges, limited>>

\* the pass up to its early returns: load the store, look the record up,
\* return for no version or a single one
PassLoad(t) ==
    /\ threads[t].pc = "pass"
    /\ LET outcome == IF ~Present(db, threads[t].path) THEN "not_found"
                      ELSE IF threads[t].data.versions = <<>> THEN "no_versions"
                      ELSE IF SingleVersion(threads[t].data.versions)
                           THEN "single_version"
                      ELSE ""
       IN threads' = [threads EXCEPT
                         ![t].pc = IF outcome = "" THEN "clean" ELSE "after",
                         ![t].outcome = outcome,
                         ![t].mem = IF outcome = "" THEN db ELSE EmptyStore,
                         ![t].loaded = IF outcome = "" THEN db ELSE EmptyStore]
    /\ UNCHANGED <<db, last, nOps, nChanges, limited>>

\* the pass, cleanup: clean the loaded store, save it, load it again; a
\* save that fails leaves the file as it was
PassClean(t, saved) ==
    /\ threads[t].pc = "clean"
    /\ IF threads[t].data.modelId # 0
       THEN \E cleaned \in {clean_conflicting_links(threads[t].mem, threads[t].path,
                                                    threads[t].data.modelId)} :
               \E written \in {IF saved THEN cleaned ELSE db} :
                  /\ db' = written
                  /\ threads' = [threads EXCEPT ![t].pc = "link", ![t].mem = written]
       ELSE /\ db' = db
            /\ threads' = [threads EXCEPT ![t].pc = "link"]
    /\ UNCHANGED <<last, nOps, nChanges, limited>>

\* the pass, matching and application: match every version against the
\* store in memory, apply the links found and save; the record has gone
\* from the store in memory when another thread removed it meanwhile
PassLink(t, saved) ==
    /\ threads[t].pc = "link"
    /\ LET mem == threads[t].mem
           path == threads[t].path
           data == threads[t].data
       IN IF ~Present(mem, path)
          THEN /\ db' = db
               /\ threads' = [threads EXCEPT ![t].pc = "after", ![t].outcome = "error"]
          ELSE \E matches \in {MatchAll(mem, path, data.modelId,
                                         data.currentVersionId, data.versions)} :
               \E r \in {FinishPass(mem, path, {}, LinksOfKind(matches, "confirmed"),
                                    LinksOfKind(matches, "assumed"))} :
                  /\ db' = IF r.outcome = "linked" /\ saved THEN r.db ELSE db
                  /\ threads' = [threads EXCEPT
                                    ![t].pc = "after",
                                    ![t].outcome = IF r.outcome = "linked" /\ ~saved
                                                   THEN "save_failed" ELSE r.outcome]
    /\ UNCHANGED <<last, nOps, nChanges, limited>>

\* after the pass both callers load the store again for the detection of
\* newer versions
AfterReload(t) ==
    /\ threads[t].pc = "after"
    /\ threads' = [threads EXCEPT ![t].pc = "save", ![t].mem = db,
                                  ![t].loaded = EmptyStore]
    /\ UNCHANGED <<db, last, nOps, nChanges, limited>>

\* and save what they loaded; detection fails when the record is gone, and
\* then the scraper skips its save
AfterSave(t, saved) ==
    /\ threads[t].pc = "save"
    /\ db' = IF /\ saved
                /\ (t = "scraper" => Present(threads[t].mem, threads[t].path))
             THEN threads[t].mem ELSE db
    /\ last' = [NoOp EXCEPT !.op = "scrape", !.path = threads[t].path,
                            !.modelId = threads[t].data.modelId,
                            !.nVersions = Len(threads[t].data.versions),
                            !.outcome = threads[t].outcome]
    /\ threads' = [threads EXCEPT ![t] = Idle]
    /\ UNCHANGED <<nOps, nChanges, limited>>

\* rate_limit_delay seconds have passed since last_scrape_time
RateLimitExpires ==
    /\ limited
    /\ limited' = FALSE
    /\ UNCHANGED <<db, last, nOps, nChanges, threads>>

\* a step of the handler that thread t runs
Step(t) ==
    \/ \E versions \in VersionLists :
          \E airVersionId \in IF Len(versions) < 2 THEN {0} ELSE {0, Len(versions)} :
             FetchPage(t, airVersionId, versions)
    \/ FetchFails(t)
    \/ \E saved \in BOOLEAN : StoreIds(t, saved)
    \/ PassLoad(t)
    \/ \E saved \in BOOLEAN : PassClean(t, saved)
    \/ \E saved \in BOOLEAN : PassLink(t, saved)
    \/ AfterReload(t)
    \/ \E saved \in BOOLEAN : AfterSave(t, saved)

AllIdle == \A t \in Threads : threads[t].pc = "idle"

\* one caller at a time, and the user's edits between the scrapes
NextSerial ==
    \/ \E t \in Threads, path \in ActivePaths : AllIdle /\ BeginScrape(t, path)
    \/ \E t \in Threads : Step(t)
    \/ RateLimitExpires
    \/ \E path \in ActivePaths, url \in Urls : AllIdle /\ UpdateModelUrl(path, url)
    \/ \E path \in ActivePaths : AllIdle /\ RemoveRecord(path)

SpecSerial == Init /\ [][NextSerial]_vars

\* the scraper thread and a request thread, scheduled freely
NextThreads ==
    \/ \E t \in Threads, path \in ActivePaths : nOps < MaxRuns /\ BeginScrape(t, path)
    \/ \E t \in Threads : Step(t)
    \/ RateLimitExpires

SpecThreads == Init /\ [][NextThreads]_vars

(* ------------------------------------------------------------------ *)
(* Vocabulary of the properties                                        *)
(* ------------------------------------------------------------------ *)
\* the resolved family ID of a record as the specification defines it: the
\* structured field, else the ID parsed from the URL, else unknown (0)
FamilyIdOf(model) ==
    IF model.civitaiModelId # 0 THEN model.civitaiModelId
    ELSE SearchDigitsAfter(model.civitaiUrl, "/models/")

\* the record's family ID is known and is not F
KnownOtherFamily(model, F) == FamilyIdOf(model) # 0 /\ FamilyIdOf(model) # F

StoredPaths == DOMAIN db.models

RelatedSet(d, p) == SeqToSet(d.models[p].relatedVersions)

NoDuplicates(s) == \A i, j \in 1..Len(s) : s[i] = s[j] => i = j

\* target size lists tried against every reachable store
TargetSizeLists == {<<100 * BytesPerKB>>,
                    <<0, 99 * BytesPerKB, 100 * BytesPerKB + 512>>}

\* the last operation was a linking pass for a record still in the store
PassDone == last.op = "pass" /\ last.path \in StoredPaths

(* ------------------------------------------------------------------ *)
(* C1                                                                  *)
(* ------------------------------------------------------------------ *)
\* C1: for every reachable store, list of target sizes and known scrape
\* family F, with no path or the last operation's path excluded and the
\* tolerance of the pass, find_assumed_match never returns a candidate
\* whose resolved family ID is known and differs from F; and the assumed
\* links a pass returns never name such a record.
C1_SizeTierNeverCrossesFamilies ==
    /\ \A sizes \in TargetSizeLists, ex \in {<<>>, last.path}, F \in Ids :
          \A m \in {find_assumed_match(db, sizes, ex, PassTolerance, F)} :
             Found(m) => ~KnownOtherFamily(db.models[m.path], F)
    /\ (PassDone /\ last.modelId # 0) =>
          \A i \in 1..Len(last.assumed) :
             ~KnownOtherFamily(db.models[last.assumed[i].path], last.modelId)

\* C1 witness: a pass has just created an assumed link although a record
\* of another known family has exactly a target size of 100 KB
C1_Witness ==
    /\ PassDone /\ last.modelId # 0 /\ last.assumed # <<>>
    /\ \E p \in StoredPaths :
          /\ p # last.path /\ ~IsMissingPath(p)
          /\ KnownOtherFamily(db.models[p], last.modelId)
          /\ ModelSize(db.models[p]) = 100 * BytesPerKB

(* ------------------------------------------------------------------ *)
(* C2                                                                  *)
(* ------------------------------------------------------------------ *)
\* C2: once the pass for a record R has finished (skipped or not), no link
\* of type assumed connects R to a stored record whose resolved family ID
\* is known and differs from R's family ID.
C2_NoCrossFamilyAssumedAfterPass ==
    PassDone =>
       \A q \in RelatedSet(db, last.path) :
          (/\ q \in StoredPaths
           /\ q \in MetaKeys(db.models[last.path])
           /\ db.models[last.path].linkMetadata[q].type = "assumed")
          => ~KnownOtherFamily(db.models[q], FamilyIdOf(db.models[last.path]))

(* ------------------------------------------------------------------ *)
(* C3                                                                  *)
(* ------------------------------------------------------------------ *)
\* C3: a pass whose scrape lists exactly one version returns empty
\* confirmed and assumed lists and leaves every record's relatedVersions
\* and linkMetadata as they were.
C3_SingleVersionLinksNothing ==
    [][(last'.op = "pass" /\ last'.nVersions = 1) =>
          /\ last'.confirmed = <<>> /\ last'.assumed = <<>>
          /\ DOMAIN db'.models = DOMAIN db.models
          /\ \A p \in DOMAIN db.models :
                /\ db'.models[p].relatedVersions = db.models[p].relatedVersions
                /\ db'.models[p].linkMetadata = db.models[p].linkMetadata]_vars

\* C3 witness: a single-version pass has run for a record while another
\* stored record carries a hash and a size the registry's files match
C3_Witness ==
    /\ PassDone /\ last.nVersions = 1
    /\ \E p \in StoredPaths :
          /\ p # last.path /\ ~IsMissingPath(p)
          /\ HashHit(db.models[p], <<ShortA>>)
          /\ ModelSize(db.models[p]) = 99 * BytesPerKB

(* ------------------------------------------------------------------ *)
(* C4                                                                  *)
(* ------------------------------------------------------------------ *)
\* C4: for every link a pass returns with method hash_match, the metadata
\* stored on the origin for that path has type confirmed and method
\* hash_match.
C4_HashLinkStoredAsHashMatch ==
    PassDone =>
       \A i \in 1..Len(last.confirmed) :
          last.confirmed[i].method = "hash_match" =>
             LET q == last.confirmed[i].path
                 origin == db.models[last.path]
             IN /\ q \in MetaKeys(origin)
                /\ origin.linkMetadata[q].type = "confirmed"
                /\ origin.linkMetadata[q].method = "hash_match"

(* ------------------------------------------------------------------ *)
(* C5                                                                  *)
(* ------------------------------------------------------------------ *)
\* C5: for all stored records A and B: B is in A.relatedVersions iff A is
\* in B.relatedVersions, and then each has a linkMetadata entry for the other.
C5_LinksSymmetric ==
    \A A \in StoredPaths, B \in StoredPaths :
       /\ (B \in RelatedSet(db, A)) <=> (A \in RelatedSet(db, B))
       /\ (B \in RelatedSet(db, A)) =>
             (B \in MetaKeys(db.models[A]) /\ A \in MetaKeys(db.models[B]))

\* C5 witness: a pass whose cleanup removed a link has linked the origin to
\* another record
C5_Witness ==
    /\ PassDone /\ last.removed # {}
    /\ \E B \in StoredPaths : B # last.path /\ B \in RelatedSet(db, last.path)

(* ------------------------------------------------------------------ *)
(* C6                                                                  *)
(* ------------------------------------------------------------------ *)
\* C6: every stored record's set of relatedVersions paths equals the key
\* set of its linkMetadata.
C6_RelatedEqualsMetadataKeys ==
    \A p \in StoredPaths : RelatedSet(db, p) = MetaKeys(db.models[p])

\* C6 witness: a pass has both removed a link in its cleanup and applied a
\* link, and the origin ends with two neighbours
C6_Witness ==
    /\ PassDone /\ last.removed # {}
    /\ last.confirmed # <<>> \/ last.assumed # <<>>
    /\ Cardinality(RelatedSet(db, last.path)) >= 2

(* ------------------------------------------------------------------ *)
(* C7                                                                  *)
(* ------------------------------------------------------------------ *)
\* C7: no stored record's relatedVersions contains the record's own path.
C7_NoSelfLink ==
    \A p \in StoredPaths : p \notin RelatedSet(db, p)

(* ------------------------------------------------------------------ *)
(* C8                                                                  *)
(* ------------------------------------------------------------------ *)
\* C8: for every reachable store, record R and known family F, every path P that
\* clean_conflicting_links(db, R, F) removes from R.relatedVersions and that
\* is still stored has afterwards no R in its relatedVersions and
\* linkMetadata, and R has no linkMetadata entry for P.
C8_CleanupRemovesBothSides ==
    \A R \in StoredPaths, F \in Ids :
       \A d2 \in {clean_conflicting_links(db, R, F)} :
          \A P \in RelatedSet(db, R) \ RelatedSet(d2, R) :
             P \in DOMAIN d2.models =>
                /\ R \notin RelatedSet(d2, P)
                /\ R \notin MetaKeys(d2.models[P])
                /\ P \notin MetaKeys(d2.models[R])

\* C8 witness: the cleanup of the last pass removed the link to a record
\* that is still stored, and the two records are unlinked after the pass
C8_Witness ==
    /\ PassDone
    /\ \E P \in last.removed \cap StoredPaths :
          /\ P # last.path
          /\ P \notin RelatedSet(db, last.path)
          /\ last.path \notin RelatedSet(db, P)

(* ------------------------------------------------------------------ *)
(* C9                                                                  *)
(* ------------------------------------------------------------------ *)
\* C9: for every reachable store, record R and known family F, after
\* clean_conflicting_links(db, R, F) the paths left in R.relatedVersions are
\* exactly the former ones that are stored and whose resolved family ID is
\* unknown or F, and each of them keeps its metadata on both sides.
C9_CleanupRemovesExactlyConflicts ==
    \A R \in StoredPaths, F \in Ids :
       \A d2 \in {clean_conflicting_links(db, R, F)} :
          /\ RelatedSet(d2, R) =
                {P \in RelatedSet(db, R) :
                    P \in StoredPaths /\ ~KnownOtherFamily(db.models[P], F)}
          /\ \A P \in RelatedSet(d2, R) :
                /\ (P \in MetaKeys(db.models[R])) <=> (P \in MetaKeys(d2.models[R]))
                /\ P \in MetaKeys(db.models[R]) =>
                      d2.models[R].linkMetadata[P] = db.models[R].linkMetadata[P]
                /\ P # R => d2.models[P] = db.models[P]

\* C9 witness: the cleanup of the last pass removed a neighbour, the pass
\* applied no link, and another neighbour is still linked to the origin
C9_Witness ==
    /\ PassDone /\ last.removed # {}
    /\ last.confirmed = <<>> /\ last.assumed = <<>>
    /\ \E Q \in RelatedSet(db, last.path) : Q # last.path

(* ------------------------------------------------------------------ *)
(* C10                                                                 *)
(* ------------------------------------------------------------------ *)
\* C10: after a pass has applied its result lists, applying the same lists
\* once more leaves every record's relatedVersions and linkMetadata as they
\* are, and no relatedVersions list holds a path twice.
C10_ApplyTwiceIsApplyOnce ==
    (PassDone /\ (last.confirmed # <<>> \/ last.assumed # <<>>)) =>
       \A d2 \in {apply_version_links(db, last.path, last.confirmed, last.assumed)} :
          /\ DOMAIN d2.models = DOMAIN db.models
          /\ \A p \in StoredPaths :
                /\ d2.models[p].relatedVersions = db.models[p].relatedVersions
                /\ d2.models[p].linkMetadata = db.models[p].linkMetadata
                /\ NoDuplicates(d2.models[p].relatedVersions)

\* C10 witness: the last pass applied a confirmed and an assumed link
C10_Witness ==
    PassDone /\ last.confirmed # <<>> /\ last.assumed # <<>>

(* ------------------------------------------------------------------ *)
(* C11                                                                 *)
(* ------------------------------------------------------------------ *)
\* C11: when a whole pass has been run twice in a row for the same record
\* with the same scraped data and nothing in between, every record's
\* relatedVersions (as a set) and linkMetadata after the second run equal
\* those after the first run, and both runs return the same outcome and
\* the same confirmed and assumed paths.
C11_PassTwiceIsPassOnce ==
    last.op = "rerun" => last.second = last.first

\* C11 witness: the first run created links, one of them to a record of
\* another known family (a hash match), so the cleanup of the second run
\* removed it and the second application had to put it back
C11_Witness ==
    /\ last.op = "rerun"
    /\ last.first.confirmed # <<>>
    /\ \E p \in last.removedAgain :
          p \in last.second.links[last.path].related

(* ------------------------------------------------------------------ *)
(* C12                                                                 *)
(* ------------------------------------------------------------------ *)
\* C12: with one caller at a time, when a pass has ended in failure (its
\* final save failed, or an error ended it after the cleanup), the
\* persisted store equals the store the pass loaded when it began, conflict
\* cleanup included: no save during the pass leaves a part of its
\* mutations in the store.
C12_FailedPassLeavesStoreUntouched ==
    \A t \in Threads :
       (threads[t].pc = "after" /\ threads[t].outcome \in {"save_failed", "error"})
          => db = threads[t].loaded

(* ------------------------------------------------------------------ *)
(* C13                                                                 *)
(* ------------------------------------------------------------------ *)
\* C13: at most one thread is between the first load of a linking pass and
\* its last save at any time.
C13_PassesNeverOverlap ==
    Cardinality({t \in Threads : InPass(t)}) <= 1

(* ------------------------------------------------------------------ *)
(* C14                                                                 *)
(* ------------------------------------------------------------------ *)
\* version IDs a target or a record can carry; 0 stands for none
VersionIds == 0..MaxId

\* the record at p is not under _missing/, its resolved family ID (field,
\* else URL) is F and its civitaiVersionId is V
IdTarget(p, F, V) ==
    /\ ~IsMissingPath(p)
    /\ FamilyIdOf(db.models[p]) = F
    /\ db.models[p].civitaiVersionId = V

ExcludePaths == {<<>>, PathA}

\* C15 as stated: for every reachable store, size list and known scrape
\* family F, find_assumed_match never returns a candidate whose resolved
\* family ID equals F, whether or not it has a civitaiVersionId.
C15_SizeTierNeverReturnsSameFamily ==
    \A sizes \in TargetSizeLists, ex \in ExcludePaths, F \in Ids :
       \A m \in {find_assumed_match(db, sizes, ex, PassTolerance, F)} :
          Found(m) => FamilyIdOf(db.models[m.path]) # F

\* C15 amended: for every reachable store, size list and known scrape
\* family F, find_assumed_match never returns a candidate whose resolved
\* family ID equals F and that has a civitaiVersionId.
C15_SizeTierNeverReturnsSameFamilyWithVersion ==
    \A sizes \in TargetSizeLists, ex \in ExcludePaths, F \in Ids :
       \A m \in {find_assumed_match(db, sizes, ex, PassTolerance, F)} :
          Found(m) =>
             ~(/\ FamilyIdOf(db.models[m.path]) = F
               /\ db.models[m.path].civitaiVersionId # 0)

\* C15 witness: a record of family 1 with a civitaiVersionId has a size
\* within tolerance of the 100 KB target and is the only record that
\* close to it besides the excluded one, and the size tier called for
\* family 1 returns another record or none
C15_Witness ==
    \E p \in StoredPaths :
       /\ ~IsMissingPath(p) /\ p # PathA
       /\ FamilyIdOf(db.models[p]) = 1
       /\ db.models[p].civitaiVersionId # 0
       /\ WithinTolerance(ModelSize(db.models[p]), 100 * BytesPerKB, PassTolerance)
       /\ find_assumed_match(db, <<100 * BytesPerKB>>, PathA, PassTolerance, 1).path # p
       /\ find_assumed_match(db, <<100 * BytesPerKB>>, PathA, PassTolerance, 0).path = p

(* ------------------------------------------------------------------ *)
(* C16                                                                 *)
(* ------------------------------------------------------------------ *)
\* all orders in which the records of a set of paths can be iterated
RECURSIVE Orders(_)
Orders(S) ==
    IF S = {} THEN {<<>>}
    ELSE UNION {{<<p>> \o rest : rest \in Orders(S \ {p})} : p \in S}

\* the candidate at p passes the exclusions and has a size
Candidate(p, ex, F) ==
    /\ ~Excluded(p, db.models[p], ex, F)
    /\ ModelSize(db.models[p]) # 0

\* the relative differences within tolerance between the candidate at p
\* and the target sizes
DiffsOf(p, sizes) ==
    {Frac(Abs(ModelSize(db.models[p]) - sizes[i]), sizes[i]) :
        i \in {j \in 1..Len(sizes) :
                 /\ sizes[j] # 0
                 /\ WithinTolerance(ModelSize(db.models[p]), sizes[j], PassTolerance)}}

\* the candidates that qualify
Qualifying(sizes, ex, F) ==
    {p \in StoredPaths : Candidate(p, ex, F) /\ DiffsOf(p, sizes) # {}}

\* C16: for every reachable store, every order of iterating its records,
\* size list and scrape family, with no path excluded, find_assumed_match
\* returns a qualifying candidate such that no qualifying candidate has a
\* strictly smaller relative difference to a target size, and it returns
\* nothing only when no candidate qualifies.
C16_SizeTierReturnsClosest ==
    \A sizes \in TargetSizeLists, ex \in {<<>>}, F \in Ids :
       \A Q \in {Qualifying(sizes, ex, F)} :
          \A ord \in Orders(StoredPaths) :
             \A m \in {find_assumed_match([db EXCEPT !.order = ord], sizes, ex,
                                          PassTolerance, F)} :
                /\ Found(m) <=> Q # {}
                /\ Found(m) =>
                      /\ m.path \in Q
                      /\ m.diff \in DiffsOf(m.path, sizes)
                      /\ \A q \in Q : \A f \in DiffsOf(q, sizes) :
                            ~FracLess(f, m.diff)

\* C16 witness: two candidates qualify for the size list with different
\* smallest differences, and the one iterated first in the store is not
\* the closest
C16_Witness ==
    \E sizes \in TargetSizeLists, F \in Ids :
       \E p, q \in Qualifying(sizes, <<>>, F) :
          /\ \E i, j \in 1..Len(db.order) :
                i < j /\ db.order[i] = p /\ db.order[j] = q
          /\ \E f \in DiffsOf(q, sizes) : \A g \in DiffsOf(p, sizes) :
                FracLess(f, g)
          /\ find_assumed_match(db, sizes, <<>>, PassTolerance, F).path = q

(* ------------------------------------------------------------------ *)
(* C17                                                                 *)
(* ------------------------------------------------------------------ *)
\* C17: a single candidate of size c > 0 is returned by the size tier for
\* a target size t > 0 exactly when |c - t| / t <= tolerance, equality
\* included; 100 MiB against 101 MiB is returned at tolerance 0.01 and is
\* not returned at tolerance 0.009.
C17_QualifiesIffWithinTolerance ==
    last.op = "size_tier" =>
       /\ Found(last.result) <=>
             Abs(last.size - last.target) * last.tol.den <= last.tol.num * last.target
       /\ (last.size = 104857600 /\ last.target = 105906176) =>
             /\ last.tol = [num |-> 1, den |-> 100] => Found(last.result)
             /\ last.tol = [num |-> 9, den |-> 1000] => ~Found(last.result)

\* C17 witness: a candidate exactly at the boundary, 1 KB off a target of
\* 100 KB at tolerance 0.01, has been returned
C17_Witness ==
    /\ last.op = "size_tier"
    /\ last.size # last.target
    /\ Abs(last.size - last.target) * last.tol.den = last.tol.num * last.target
    /\ Found(last.result) /\ last.result.path = PathB

(* ------------------------------------------------------------------ *)
(* C18                                                                 *)
(* ------------------------------------------------------------------ *)
EqualIgnoringCase(x, y) ==
    Len(x) = Len(y) /\ \A i \in 1..Len(x) : UpperChar(x[i]) = UpperChar(y[i])

PrefixIgnoringCase(short, long) ==
    Len(short) <= Len(long) /\ \A i \in 1..Len(short) : UpperChar(short[i]) = UpperChar(long[i])

\* x is a short form and y a full form
ShortAndFull(x, y) == Len(x) = ShortLen /\ Len(y) = FullLen

\* the rule of the claim for one stored hash and one target
HashRule(h, t) ==
    \/ EqualIgnoringCase(h, t)
    \/ ShortAndFull(h, t) /\ PrefixIgnoringCase(h, t)
    \/ ShortAndFull(t, h) /\ PrefixIgnoringCase(t, h)

\* the rule holds of the call just made
HashRuleOfCall ==
    last.result <=> \E i \in 1..Len(last.targets) : HashRule(last.hash, last.targets[i])

\* the call just made is the spec's concrete case with the record hash h
ConcreteHashCall(h) ==
    last.hash = h /\ last.targets = <<SpecTarget>>

\* C18 as stated: hash_matches(h, targets) is true if and only if some
\* target equals h ignoring case, or one of the two is a short form, the
\* other a full form and the shorter a prefix of the longer ignoring case;
\* and the record hash written in the spec matches the target ABCDEF1234.
C18_HashMatchesRuleAndSpecCase ==
    last.op = "hash_matches" =>
       /\ HashRuleOfCall
       /\ ConcreteHashCall(SpecHash) => last.result

\* C18 amended: the same rule; the record hash written in the spec has 62
\* characters, is no full form and does not match ABCDEF1234, and padded
\* to 64 characters it matches.
C18_HashMatchesRule ==
    last.op = "hash_matches" =>
       /\ HashRuleOfCall
       /\ ConcreteHashCall(SpecHash) => ~last.result
       /\ ConcreteHashCall(SpecHashPadded) => last.result

\* C18 witness: hash_matches has been called for a stored short form with
\* lower-case letters against a list whose only match is a full form it
\* is a prefix of ignoring case, and has returned true
C18_Witness ==
    /\ last.op = "hash_matches"
    /\ last.hash = SpecTargetLower
    /\ last.targets = <<FullC, SpecHashPadded>>
    /\ last.result

(* ------------------------------------------------------------------ *)
(* C19                                                                 *)
(* ------------------------------------------------------------------ *)
\* detect_newer_versions has been called for a record with versions whose
\* current version has a date that parses
DetectedWithCurrentDate ==
    /\ last.op = "detect"
    /\ last.current # 0
    /\ last.model.civitaiData.versions[last.current].publishedAt.kind = "date"

\* the date a publishedAt string parses to, on the UTC time line (a string
\* without offset read as UTC)
DateOf(published) == published.local - OffsetOf(published.zone)

\* the IDs of the versions whose publishedAt parses to a date strictly
\* later than that of the current version
LaterVersionIds ==
    LET versions == last.model.civitaiData.versions
        current == versions[last.current]
    IN {versions[i].id : i \in {j \in 1..Len(versions) :
           /\ versions[j].publishedAt.kind = "date"
           /\ DateOf(versions[j].publishedAt) > DateOf(current.publishedAt)}}

\* the IDs of the versions reported
ReportedIds ==
    {last.result.allNewerVersions[i].id : i \in 1..Len(last.result.allNewerVersions)}

\* C19: for every record with versions whose current version has a date
\* that parses, detection does not fail and the versions reported in
\* allNewerVersions are exactly the versions whose publishedAt parses to a
\* date strictly later than the current version's; an equal date is not
\* newer.
C19_NewerIffStrictlyLater ==
    DetectedWithCurrentDate =>
       /\ ~last.result.raised
       /\ ReportedIds = LaterVersionIds
       /\ Len(last.result.allNewerVersions) = Cardinality(LaterVersionIds)
       /\ last.result.found <=> LaterVersionIds # {}

(* ------------------------------------------------------------------ *)
(* C20                                                                 *)
(* ------------------------------------------------------------------ *)
\* C20: when detection reports newer versions, they are ordered by parsed
\* date, latest first, so the first one (newestVersion) has the greatest
\* parsed date of all, also when the strings carry different offsets.
C20_NewestHasLatestDate ==
    (last.op = "detect" /\ last.result.found) =>
       \A i, j \in 1..Len(last.result.allNewerVersions) :
          i < j => DateOf(last.result.allNewerVersions[i].publishedAt)
                      >= DateOf(last.result.allNewerVersions[j].publishedAt)

(* ------------------------------------------------------------------ *)
(* C21                                                                 *)
(* ------------------------------------------------------------------ *)
\* C21: for every combination of publishedAt values in a record's version
\* list (absent, unparsable, with Z, with an offset, without offset)
\* detect_newer_versions raises no error, and no version whose date is
\* absent or unparsable is reported as newer.
C21_DetectionNeverRaises ==
    last.op = "detect" =>
       /\ ~last.result.raised
       /\ \A i \in 1..Len(last.result.allNewerVersions) :
             last.result.allNewerVersions[i].publishedAt.kind = "date"

(* ------------------------------------------------------------------ *)
(* C27                                                                 *)
(* ------------------------------------------------------------------ *)
\* the positions of the versions of the last call whose id is the
\* record's civitaiVersionId
EntriesWithStoredId ==
    {i \in 1..Len(last.model.civitaiData.versions) :
        last.model.civitaiData.versions[i].id = last.model.civitaiVersionId}

\* C27: for every record with a version list, the version whose date
\* detect_newer_versions takes as the current date is the entry whose id
\* equals the record's civitaiVersionId, and it is the first entry of the
\* list exactly when no entry has that id.
C27_CurrentIsEntryWithStoredId ==
    (last.op = "detect" /\ last.model.civitaiData.versions # <<>>) =>
       /\ EntriesWithStoredId # {} => last.current \in EntriesWithStoredId
       /\ EntriesWithStoredId = {} => last.current = 1

(* ------------------------------------------------------------------ *)
(* C30                                                                 *)
(* ------------------------------------------------------------------ *)
\* C30: for every reachable store, scrape family ID and remote version
\* id, each possibly absent, find_confirmed_match never returns a record
\* without a civitaiModelId or without a civitaiVersionId, and it returns
\* nothing when the family ID or the version id is absent.
C30_IdTierNeedsBothIds ==
    \A model_id \in 0..MaxId, version_id \in VersionIds :
       \A m \in {find_confirmed_match(db, model_id, version_id)} :
          /\ Found(m) => /\ db.models[m.path].civitaiModelId # 0
                         /\ db.models[m.path].civitaiVersionId # 0
          /\ (model_id = 0 \/ version_id = 0) => ~Found(m)

(* ------------------------------------------------------------------ *)
(* C22                                                                 *)
(* ------------------------------------------------------------------ *)
\* the version lists a pass is run with against every reachable store:
\* those of the greatest length; a pass given fewer than two versions
\* returns before it matches or writes anything
LinkedLists == VersionListsOfLen(MaxVersions)

\* the family IDs of those scrapes: none, the family of the URL the first
\* record starts with, and the greatest family ID
ScrapedFamilies == {0, 1, MaxId}

\* the scrapes a pass is run with against every reachable store: the
\* current version unknown or the last one listed
ScrapesOf(versions) ==
    {[modelId |-> F, currentVersionId |-> cur, versions |-> versions] :
        F \in ScrapedFamilies, cur \in IF Len(versions) < 2 THEN {0} ELSE {0, Len(versions)}}

\* a record without its two link fields
OtherFields(model) == [model EXCEPT !.relatedVersions = <<>>, !.linkMetadata = <<>>]

\* the records a pass result names: those it linked and those it unlinked
Touched(r) == SeqToSet(PathsOf(r.confirmed)) \cup SeqToSet(PathsOf(r.assumed)) \cup r.removed

\* C22: for every reachable store, origin and scrape, the store a linking
\* pass leaves has the same record paths in the same order, every record
\* keeps every field other than relatedVersions and linkMetadata, and a
\* record that is neither the origin nor linked or unlinked by the pass is
\* left as it was.
C22_PassWritesOnlyLinkFields ==
    \A path \in ActivePaths, versions \in LinkedLists :
       \A scraped_data \in ScrapesOf(versions) :
          \A r \in {link_versions_from_civitai_scrape(db, path, scraped_data)} :
             /\ r.db.order = db.order
             /\ DOMAIN r.db.models = DOMAIN db.models
             /\ \A p \in DOMAIN db.models :
                   /\ OtherFields(r.db.models[p]) = OtherFields(db.models[p])
                   /\ (p # path /\ p \notin Touched(r)) => r.db.models[p] = db.models[p]

\* C22 witness: a store in which a pass for a record both unlinks a
\* neighbour of another family and links a record, while a third record not
\* under _missing/ is neither
C22_Witness ==
    \E path \in ActivePaths, versions \in LinkedLists :
       \E scraped_data \in ScrapesOf(versions) :
          \E r \in {link_versions_from_civitai_scrape(db, path, scraped_data)} :
             /\ r.removed # {}
             /\ r.confirmed # <<>> \/ r.assumed # <<>>
             /\ r.db # db
             /\ \E p \in StoredPaths \cap ActivePaths : p # path /\ p \notin Touched(r)

(* ------------------------------------------------------------------ *)
(* The stores a scrape leaves                                          *)
(* ------------------------------------------------------------------ *)
\* a scrape, an edit of a URL or a removal, up to MaxSetupOps of them, and
\* then one more scrape with its linking pass
NextTiers ==
    \/ \E path \in ActivePaths, versions \in VersionLists :
          \E airVersionId \in IF Len(versions) < 2 THEN {0} ELSE {0, Len(versions)} :
             nOps <= MaxSetupOps /\ ScrapeModel(path, airVersionId, versions)
    \/ \E path \in ActivePaths, url \in Urls :
          nOps < MaxSetupOps /\ UpdateModelUrl(path, url)
    \/ \E path \in ActivePaths :
          nOps < MaxSetupOps /\ RemoveRecord(path)

SpecTiers == Init /\ [][NextTiers]_vars

(* ------------------------------------------------------------------ *)
(* C24                                                                 *)
(* ------------------------------------------------------------------ *)
\* all links a pass result holds, confirmed and assumed
AllLinks(r) == r.confirmed \o r.assumed

\* the links a pass result holds for the remote version with the given id
LinksFor(r, version_id) ==
    SelectSeq(AllLinks(r), LAMBDA link : link.versionId = version_id)

\* what the tiers say about one remote version on the store d: a record
\* hash-matches it, a record ID-matches it
HashTierHits(d, version) == Found(find_hash_match(d, version_hashes(version.files)))
IdTierHits(d, model_id, version) == Found(find_confirmed_match(d, model_id, version.id))

\* the tier order holds of the links recorded for one remote version
TierOrder(d, scraped_data, version, links) ==
    /\ Len(links) <= 1
    /\ version.id = scraped_data.currentVersionId => links = <<>>
    /\ \A i \in 1..Len(links) :
          /\ links[i].method = "hash_match" <=> HashTierHits(d, version)
          /\ links[i].method = "civitai_id" =>
                ~HashTierHits(d, version) /\ IdTierHits(d, scraped_data.modelId, version)
          /\ links[i].method = "file_size" =>
                /\ version_hashes(version.files) = <<>>
                /\ ~IdTierHits(d, scraped_data.modelId, version)
                /\ Len(scraped_data.versions) >= 2

\* C24: for every reachable store, origin and scrape, the pass records at
\* most one match for each remote version and none for the current one; a
\* match is a hash match exactly when a record hash-matches the version, an
\* ID match only if no record hash-matches it, and a size match only if the
\* version lists no hash, no record ID-matches it and the scrape lists at
\* least two versions.
C24_TiersInOrder ==
    \A path \in ActivePaths, versions \in LinkedLists :
       \A scraped_data \in ScrapesOf(versions) :
          \A r \in {link_versions_from_civitai_scrape(db, path, scraped_data)} :
             /\ \A i \in 1..Len(versions) :
                   TierOrder(db, scraped_data, versions[i], LinksFor(r, versions[i].id))
             /\ \A j \in 1..Len(AllLinks(r)) :
                   \E i \in 1..Len(versions) : versions[i].id = AllLinks(r)[j].versionId

\* C24 witness: a pass records a hash match for a version that a record
\* also ID-matches, and a pass of the same store records an ID match for
\* one version and a size match for another
C24_Witness ==
    /\ \E path \in ActivePaths, versions \in LinkedLists :
          \E scraped_data \in ScrapesOf(versions) :
             \E r \in {link_versions_from_civitai_scrape(db, path, scraped_data)} :
                \E i \in 1..Len(r.confirmed), k \in 1..Len(versions) :
                   /\ r.confirmed[i].method = "hash_match"
                   /\ versions[k].id = r.confirmed[i].versionId
                   /\ IdTierHits(db, scraped_data.modelId, versions[k])
    /\ \E path \in ActivePaths, versions \in LinkedLists :
          \E scraped_data \in ScrapesOf(versions) :
             \E r \in {link_versions_from_civitai_scrape(db, path, scraped_data)} :
                /\ r.assumed # <<>>
                /\ \E i \in 1..Len(r.confirmed) : r.confirmed[i].method = "civitai_id"

(* ------------------------------------------------------------------ *)
(* C26                                                                 *)
(* ------------------------------------------------------------------ *)
\* the entries the records at A and B of the store d hold for each other
\* carry the same type and the same method
SameTypeAndMethod(d, A, B) ==
    (B \in MetaKeys(d.models[A]) /\ A \in MetaKeys(d.models[B])) =>
       /\ d.models[A].linkMetadata[B].type = d.models[B].linkMetadata[A].type
       /\ d.models[A].linkMetadata[B].method = d.models[B].linkMetadata[A].method

\* C26: in every state reached from the store without links, for every
\* linked pair (A, B) of stored records linkMetadata[B] on A and
\* linkMetadata[A] on B carry the same type and the same method, and they
\* still do after upgrade_assumed_to_confirmed has been applied to the pair.
C26_BothSidesSameTypeAndMethod ==
    \A A \in StoredPaths : \A B \in RelatedSet(db, A) \cap StoredPaths :
       /\ SameTypeAndMethod(db, A, B)
       /\ \A version_id \in Ids :
             SameTypeAndMethod(upgrade_assumed_to_confirmed(db, A, B, 1, version_id), A, B)

\* C26 witness: a record is linked to one record by a confirmed link and to
\* another by an assumed link, with entries on both sides of each, and the
\* last pass wrote a link of either kind
C26_Witness ==
    /\ PassDone /\ last.confirmed # <<>> /\ last.assumed # <<>>
    /\ \E A \in StoredPaths : \E B, C \in RelatedSet(db, A) \cap StoredPaths :
          /\ B # A /\ C # A
          /\ A \in MetaKeys(db.models[B]) /\ A \in MetaKeys(db.models[C])
          /\ db.models[B].linkMetadata[A].type = "confirmed"
          /\ db.models[C].linkMetadata[A].type = "assumed"
          /\ db.models[A].linkMetadata[B].type = "confirmed"
          /\ db.models[A].linkMetadata[C].type = "assumed"

(* ------------------------------------------------------------------ *)
(* C28                                                                 *)
(* ------------------------------------------------------------------ *)
\* the record at A of the store d holds an entry of the given type for B
HasLinkOfType(d, A, B, type) ==
    /\ A \in DOMAIN d.models
    /\ B \in MetaKeys(d.models[A])
    /\ d.models[A].linkMetadata[B].type = type

\* every link the last pass returned as confirmed is stored with type
\* confirmed on the origin
ConfirmedStoredAsConfirmed ==
    PassDone =>
       \A i \in 1..Len(last.confirmed) :
          HasLinkOfType(db, last.path, last.confirmed[i].path, "confirmed")

\* no step turns an entry of type confirmed into one of type assumed
ConfirmedStaysConfirmed ==
    \A A \in DOMAIN db.models, B \in DOMAIN db.models :
       HasLinkOfType(db, A, B, "confirmed") => ~HasLinkOfType(db', A, B, "assumed")

\* C28: a link a pass found as Confirmed is stored with type confirmed also
\* when the size tier selected the same record for another version of the
\* pass, and an entry of type confirmed never becomes one of type assumed
\* by a later pass for either record.
C28_ConfirmedNeverBecomesAssumed ==
    /\ []ConfirmedStoredAsConfirmed
    /\ [][ConfirmedStaysConfirmed]_vars

(* ------------------------------------------------------------------ *)
(* update_model with a scrape                                          *)
(* ------------------------------------------------------------------ *)
\* update_model when the URL changed and the rate limit is not in effect:
\* the handler loads the store, scrapes the new URL, sets the IDs of the
\* URL on the record the client sent, runs the linking pass (which loads
\* and saves the store itself), puts the client's record into the store
\* it loaded at the start and saves that; the client sent the record as
\* stored, with the new URL
UpdateModelScrape(path, url, airVersionId, versions, saved) ==
    /\ nOps <= MaxSetupOps
    /\ Present(db, path)
    /\ url # <<>> /\ url # db.models[path].civitaiUrl
    /\ extract_ids_from_url(url).modelId # 0
    /\ LET ids == extract_ids_from_url(url)
           scraped_data == scrape_model_page(url, airVersionId, versions)
           new_model == [db.models[path] EXCEPT !.civitaiUrl = url,
                                               !.civitaiModelId = ids.modelId,
                                               !.civitaiVersionId = ids.versionId]
       IN \E r \in {link_versions_from_civitai_scrape(db, path, scraped_data)} :
          /\ db' = IF saved THEN [db EXCEPT !.models[path] = new_model] ELSE r.db
          /\ last' = [op |-> "update", path |-> path, modelId |-> scraped_data.modelId,
                      nVersions |-> Len(versions), saved |-> saved,
                      outcome |-> r.outcome, removed |-> r.removed,
                      confirmed |-> r.confirmed, assumed |-> r.assumed]
    /\ nOps' = nOps + 1
    /\ UNCHANGED <<nChanges, threads, limited>>

\* one scrape, edit or removal, then updates of a record with a new URL
NextUpdate ==
    \/ \E path \in ActivePaths, versions \in VersionLists :
          \E airVersionId \in IF Len(versions) < 2 THEN {0} ELSE {0, Len(versions)} :
             nOps < MaxSetupOps /\ ScrapeModel(path, airVersionId, versions)
    \/ \E path \in ActivePaths, url \in Urls :
          nOps < MaxSetupOps /\ UpdateModelUrl(path, url)
    \/ \E path \in ActivePaths :
          nOps < MaxSetupOps /\ RemoveRecord(path)
    \/ \E path \in ActivePaths, url \in Urls, versions \in VersionLists, saved \in BOOLEAN :
          \E airVersionId \in IF Len(versions) < 2 THEN {0} ELSE {0, Len(versions)} :
             UpdateModelScrape(path, url, airVersionId, versions, saved)

SpecUpdate == Init /\ [][NextUpdate]_vars

(* ------------------------------------------------------------------ *)
(* C29                                                                 *)
(* ------------------------------------------------------------------ *)
\* C29: when update_model has run a pass that applied links and its final
\* save succeeded, every link of the pass is in the persisted store, on the
\* origin and on the matched record.
C29_UpdateKeepsLinksOfPass ==
    (last.op = "update" /\ last.saved /\ last.path \in StoredPaths) =>
       \A i \in 1..Len(AllLinks(last)) :
          /\ AllLinks(last)[i].path \in RelatedSet(db, last.path)
          /\ last.path \in RelatedSet(db, AllLinks(last)[i].path)

(* ------------------------------------------------------------------ *)
(* The pass with its save and its reload as separate steps             *)
(* ------------------------------------------------------------------ *)
\* the pass, lines 100-102: clean the loaded store and save it; without a
\* family ID the pass goes on with the store it loaded
PassCleanSave(t, saved) ==
    /\ threads[t].pc = "clean"
    /\ IF threads[t].data.modelId # 0
       THEN \E cleaned \in {clean_conflicting_links(threads[t].mem, threads[t].path,
                                                    threads[t].data.modelId)} :
               /\ db' = IF saved THEN cleaned ELSE db
               /\ threads' = [threads EXCEPT ![t].pc = "reload", ![t].mem = cleaned]
       ELSE /\ db' = db
            /\ threads' = [threads EXCEPT ![t].pc = "link"]
    /\ UNCHANGED <<last, nOps, nChanges, limited>>

\* the pass, line 103: load the store again; line 104 then looks the
\* origin up in it, which PassLink does
PassReloadStore(t) ==
    /\ threads[t].pc = "reload"
    /\ threads' = [threads EXCEPT ![t].pc = "link", ![t].mem = db]
    /\ UNCHANGED <<db, last, nOps, nChanges, limited>>

\* a step of the handler that thread t runs, the save and the reload of
\* the pass being steps of their own
StepReload(t) ==
    \/ \E versions \in VersionLists :
          \E airVersionId \in IF Len(versions) < 2 THEN {0} ELSE {0, Len(versions)} :
             FetchPage(t, airVersionId, versions)
    \/ FetchFails(t)
    \/ \E saved \in BOOLEAN : StoreIds(t, saved)
    \/ PassLoad(t)
    \/ \E saved \in BOOLEAN : PassCleanSave(t, saved)
    \/ PassReloadStore(t)
    \/ \E saved \in BOOLEAN : PassLink(t, saved)
    \/ AfterReload(t)
    \/ \E saved \in BOOLEAN : AfterSave(t, saved)

\* one scrape at a time, while another request thread removes a record at
\* any moment (update_all_models)
NextRemoval ==
    \/ \E t \in Threads, path \in ActivePaths :
          AllIdle /\ nOps < MaxRuns /\ BeginScrape(t, path)
    \/ \E t \in Threads : StepReload(t)
    \/ RateLimitExpires
    \/ \E path \in ActivePaths : RemoveRecord(path)

SpecRemoval == Init /\ [][NextRemoval]_vars

(* ------------------------------------------------------------------ *)
(* C23                                                                 *)
(* ------------------------------------------------------------------ *)
\* C23: when a record is removed from the store by another writer while a
\* pass runs, the pass raises no error: it never ends with the KeyError of
\* a lookup of a record that is gone.
C23_VanishedRecordIsNoError ==
    \A t \in Threads :
       threads[t].pc = "after" => threads[t].outcome # "error"

(* ------------------------------------------------------------------ *)
(* Newer-version detection applied to the store                        *)
(* ------------------------------------------------------------------ *)
\* a record without the key newVersionAvailable
NoFlag == [hasNewerVersion |-> FALSE, allNewerVersions |-> <<>>, count |-> 0]

\* the value detect_newer_versions returns for a record with newer versions
FlagOf(result) ==
    [hasNewerVersion |-> TRUE, allNewerVersions |-> result.allNewerVersions,
     count |-> Len(result.allNewerVersions)]

\* a record of the scanner that can also hold what a scrape stores on it
\* and the flag; civitaiData absent is the empty version list
DetectRecord(path, url) ==
    LET f == ScannedFields(path) IN
    [fileHash |-> f.fileHash, highHash |-> f.highHash, lowHash |-> f.lowHash,
     fileSize |-> f.fileSize, altFileSize |-> f.altFileSize,
     civitaiUrl |-> url, civitaiModelId |-> 0, civitaiVersionId |-> 0,
     relatedVersions |-> <<>>, linkMetadata |-> <<>>,
     civitaiData |-> [modelId |-> 0, currentVersionId |-> 0, versions |-> <<>>],
     newVersionAvailable |-> NoFlag]

\* the publishedAt values of the scrapes of this part: the first version
\* of a family was published at hour 1 in UTC, a later version before it
\* or after it, or it carries a string without offset
FirstDate == DateAt(1, "Z")
LaterDates == {DateAt(0, "Z"), DateAt(MaxTime, "Z"), DateAt(MaxTime, "")}

\* the version lists of those scrapes; the versions list no files
DetectVersionLists(max) ==
    UNION {{[i \in 1..n |-> [id |-> i, name |-> VersionName(i), files |-> <<>>,
                             publishedAt |-> IF i = 1 THEN FirstDate ELSE dates[i]]] :
              dates \in [2..n -> LaterDates]} : n \in 0..max}

\* the scanner has catalogued the files and the user has entered a family
\* URL for the first record and a version URL for the second
InitDetect ==
    /\ db = [order |-> InitialOrder,
             models |-> [p \in Paths |->
                           DetectRecord(p, IF p = PathA THEN FamilyUrl(1)
                                           ELSE IF p = PathB THEN VersionUrl(1, 1)
                                           ELSE <<>>)]]
    /\ last = NoOp
    /\ nOps = 0
    /\ nChanges = 0
    /\ threads = [t \in Threads |-> Idle]
    /\ limited = FALSE

\* detect_newer_versions(db): the loop over the records; the TypeError of
\* one record ends the whole call
DetectStore(d) ==
    LET results == [p \in DOMAIN d.models |->
                      IF IsMissingPath(p)
                      THEN [raised |-> FALSE, found |-> FALSE, allNewerVersions |-> <<>>]
                      ELSE detect_newer_versions(d.models[p])]
    IN [raised |-> \E p \in DOMAIN d.models : results[p].raised,
        found |-> {p \in DOMAIN d.models : results[p].found},
        info |-> results]

\* the records of the store d that carry the key newVersionAvailable
FlaggedPaths(d) == {p \in DOMAIN d.models : d.models[p].newVersionAvailable.hasNewerVersion}

\* fault variant: the flags of the records not found are left in place
DetectRoute_no_clear(saved) ==
    /\ nOps < MaxOps
    /\ \E det \in {DetectStore(db)} :
          /\ db' = IF det.raised \/ ~saved THEN db
                   ELSE [db EXCEPT !.models =
                            [p \in DOMAIN db.models |->
                               [db.models[p] EXCEPT !.newVersionAvailable =
                                   IF p \in det.found THEN FlagOf(det.info[p])
                                   ELSE db.models[p].newVersionAvailable]]]
          /\ last' = [op |-> "detect_route", path |-> <<>>,
                      cleared |-> FlaggedPaths(db) \ FlaggedPaths(db'),
                      applied |-> ~det.raised /\ saved]
    /\ nOps' = nOps + 1
    /\ UNCHANGED <<nChanges, threads, limited>>

\* detect_newer_versions_route: detect, set the flag of every record found,
\* delete the flag of every other record, save; an exception or a failed
\* save answers 500 and leaves the file as it was
DetectRoute(saved) ==
    /\ nOps < MaxOps
    /\ \E det \in {DetectStore(db)} :
          /\ db' = IF det.raised \/ ~saved THEN db
                   ELSE [db EXCEPT !.models =
                            [p \in DOMAIN db.models |->
                               [db.models[p] EXCEPT !.newVersionAvailable =
                                   IF p \in det.found THEN FlagOf(det.info[p])
                                   ELSE NoFlag]]]
          /\ last' = [op |-> "detect_route", path |-> <<>>,
                      cleared |-> FlaggedPaths(db) \ FlaggedPaths(db'),
                      applied |-> ~det.raised /\ saved]
    /\ nOps' = nOps + 1
    /\ UNCHANGED <<nChanges, threads, limited>>

\* BackgroundScraper._scrape_model as a whole: store the IDs of the URL
\* and the scraped data, save (give up when that fails), run the pass, load
\* the store, detect, set or delete the flag of the scraped record only,
\* save; an exception of the detection is logged and nothing more is saved
ScrapeDetect(path, airVersionId, versions, stored, saved) ==
    /\ nOps < MaxOps
    /\ Present(db, path)
    /\ extract_ids_from_url(db.models[path].civitaiUrl).modelId # 0
    /\ LET url == db.models[path].civitaiUrl
           ids == extract_ids_from_url(url)
           scraped_data == scrape_model_page(url, airVersionId, versions)
           with_data == [db EXCEPT !.models[path].civitaiModelId = ids.modelId,
                                   !.models[path].civitaiVersionId = ids.versionId,
                                   !.models[path].civitaiData = scraped_data]
       IN IF ~stored
          THEN /\ db' = db
               /\ last' = [op |-> "scrape_detect", path |-> path,
                           cleared |-> {}, applied |-> FALSE]
          ELSE \E r \in {link_versions_from_civitai_scrape(with_data, path, scraped_data)} :
               \E det \in {DetectStore(r.db)} :
                  /\ db' = IF det.raised \/ ~saved THEN r.db
                           ELSE [r.db EXCEPT !.models[path].newVersionAvailable =
                                    IF path \in det.found THEN FlagOf(det.info[path])
                                    ELSE NoFlag]
                  /\ last' = [op |-> "scrape_detect", path |-> path,
                              cleared |-> FlaggedPaths(db) \ FlaggedPaths(db'),
                              applied |-> ~det.raised /\ saved]
    /\ nOps' = nOps + 1
    /\ UNCHANGED <<nChanges, threads, limited>>

NextDetect ==
    \/ \E saved \in BOOLEAN : DetectRoute(saved)
    \/ \E path \in ActivePaths, versions \in DetectVersionLists(MaxVersions),
          stored \in BOOLEAN, saved \in BOOLEAN :
          ScrapeDetect(path, 0, versions, stored, saved)

SpecDetect == InitDetect /\ [][NextDetect]_vars

(* ------------------------------------------------------------------ *)
(* C25                                                                 *)
(* ------------------------------------------------------------------ *)
\* the record at p carries the key newVersionAvailable
Flagged(p) == db.models[p].newVersionAvailable.hasNewerVersion

\* detection finds at least one newer version for the record at p
NewerFound(p) == ~IsMissingPath(p) /\ detect_newer_versions(db.models[p]).found

\* detection has just been applied to the store: the route or the step
\* after a scrape ran without exception and its save succeeded
DetectionApplied == last.op \in {"detect_route", "scrape_detect"} /\ last.applied

\* the flag of the record at p is as detection finds it
FlagAsDetected(p) ==
    /\ Flagged(p) <=> NewerFound(p)
    /\ Flagged(p) =>
          db.models[p].newVersionAvailable.count
             = Len(db.models[p].newVersionAvailable.allNewerVersions)

\* C25 as stated: after detection has been applied to the store by the
\* route or by the step that follows a scrape, every record carries the
\* flag if and only if detection finds a newer version for it, and the
\* flag's count is the number of versions in its allNewerVersions.
C25_FlagIffNewerFound ==
    DetectionApplied => \A p \in StoredPaths : FlagAsDetected(p)

\* C25 amended: after the route has applied detection every record carries
\* the flag if and only if detection finds a newer version for it; after
\* the step that follows a scrape this holds of the scraped record; the
\* flag's count is the number of versions in its allNewerVersions.
C25_FlagIffNewerFoundWhereApplied ==
    DetectionApplied =>
       /\ last.op = "detect_route" => \A p \in StoredPaths : FlagAsDetected(p)
       /\ last.op = "scrape_detect" => FlagAsDetected(last.path)

\* C25 witness: the route has removed the flag of a record that an
\* earlier detection had set and for which detection now finds nothing
C25_Witness ==
    /\ last.op = "detect_route" /\ last.applied
    /\ \E p \in last.cleared \cap StoredPaths :
          /\ ~Flagged(p) /\ ~NewerFound(p)
          /\ db.models[p].civitaiData.versions # <<>>
====
